---- MODULE Spec2Model ----
(***************************************************************************)
(* Sample-size estimator of Sample-Size-Calculator-OCP.                    *)
(*                                                                         *)
(* The estimator is JavaScript arithmetic over the type `number`.  It is   *)
(* modelled by a decimal floating-point type with the three kinds of       *)
(* value an IEEE double has: NaN, +/-Infinity and finite values.  A finite *)
(* value is m * 10^x with a four-digit signed mantissa (1000 <= |m| <=     *)
(* 9999, or m = 0 and x = 0); every operation rounds its exact result to   *)
(* the nearest such value, as the double operations round to 53 bits.      *)
(* Integers up to 9999 are exact.  The sign of zero is not modelled.       *)
(***************************************************************************)
EXTENDS Integers, Sequences, FiniteSets, TLC

VARIABLES
    baselineRate,   \* baseline conversion rate argument, in hundredths
    mde,            \* relative effect (minimum detectable effect) argument, in tenths
    significancePercent, \* significance argument, in percent
    libOut,         \* last sampleSizeEstimate (sample_size_calc.ts) call on the arguments
    toolOut,        \* last calculateSampleSizeInternal call on the arguments
    existingOut,    \* last call of the pre-existing sampleSizeEstimate on the arguments
    roundIn,        \* argument of the last direct roundToSigFigs call
    roundOut,       \* its result
    validateOut,    \* the last validateParameter call and its result
    request,        \* the params of the calculate_sample_size request
    response,       \* what calculateSampleSize returned for it
    settings,       \* the section monday_auth of the settings store
    validated,      \* the tokens a test API call has answered ok for
    toasts,         \* the toasts of the last onSettingsForm result
    client,         \* the MondayClient under test
    requests,       \* the HTTP requests of the last Monday.com call, in order
    outcome         \* how the last Monday.com call settled

\* the variables of the estimator and of the direct rounding calls
estimatorVars == <<baselineRate, mde, significancePercent, libOut, toolOut, existingOut,
                   roundIn, roundOut, validateOut>>

\* the variables of the calculate_sample_size tool
toolVars == <<request, response>>

\* the variables of the Monday.com integration
mondayVars == <<settings, validated, toasts, client, requests, outcome>>

\* the variables the estimator calls leave alone
outsideEstimator == <<toolVars, mondayVars, validateOut>>

vars == <<estimatorVars, toolVars, mondayVars>>

(***************************************************************************)
(* The type number.                                                        *)
(***************************************************************************)
NaN == [k |-> "NaN", m |-> 0, x |-> 0]

PosInf == [k |-> "Inf", m |-> 1, x |-> 0]

NegInf == [k |-> "Inf", m |-> -1, x |-> 0]

Zero == [k |-> "fin", m |-> 0, x |-> 0]

null == [k |-> "null", m |-> 0, x |-> 0]

RECURSIVE Pow10(_)
Pow10(n) == IF n <= 0 THEN 1 ELSE 10 * Pow10(n - 1)

RECURSIVE Digits(_)
Digits(n) == IF n < 10 THEN 1 ELSE 1 + Digits(n \div 10)

IntAbs(n) == IF n < 0 THEN -n ELSE n

IntSign(n) == IF n < 0 THEN -1 ELSE IF n = 0 THEN 0 ELSE 1

\* The finite number nearest to n * 10^x (ties away from zero).
Norm(n, x) ==
    IF n = 0 THEN Zero
    ELSE LET a == IntAbs(n)
             d == Digits(a)
         IN  IF d <= 4
             THEN [k |-> "fin", m |-> IntSign(n) * a * Pow10(4 - d), x |-> x - (4 - d)]
             ELSE LET q == Pow10(d - 4)
                      r == (a + (q \div 2)) \div q
                  IN  IF r >= 10000
                      THEN [k |-> "fin", m |-> IntSign(n) * 1000, x |-> x + (d - 4) + 1]
                      ELSE [k |-> "fin", m |-> IntSign(n) * r, x |-> x + (d - 4)]

FromInt(n) == Norm(n, 0)

One == FromInt(1)

Two == FromInt(2)

IsNaN(a) == a.k = "NaN"

IsInf(a) == a.k = "Inf"

IsFin(a) == a.k = "fin"

\* -1, 0 or 1: the sign of a number that is not NaN
Sign(a) == IntSign(a.m)

\* a < b for two finite numbers
FinLess(a, b) ==
    IF Sign(a) # Sign(b) THEN Sign(a) < Sign(b)
    ELSE IF Sign(a) = 0 THEN FALSE
    ELSE IF Sign(a) > 0
         THEN a.x < b.x \/ (a.x = b.x /\ a.m < b.m)
         ELSE a.x > b.x \/ (a.x = b.x /\ a.m < b.m)

\* the operator <
FLt(a, b) ==
    IF IsNaN(a) \/ IsNaN(b) THEN FALSE
    ELSE IF IsInf(a) THEN a.m < 0 /\ ~(IsInf(b) /\ b.m < 0)
    ELSE IF IsInf(b) THEN b.m > 0
    ELSE FinLess(a, b)

\* the operator >=
FGe(a, b) ==
    IF IsNaN(a) \/ IsNaN(b) THEN FALSE ELSE ~FLt(a, b)

FNeg(a) == IF IsNaN(a) THEN NaN ELSE [a EXCEPT !.m = -a.m]

\* Math.abs
MathAbs(a) == IF IsNaN(a) THEN NaN ELSE [a EXCEPT !.m = IntAbs(a.m)]

\* the operator + ; an addend below a tenth of the other's last digit is rounded away
FAdd(a, b) ==
    IF IsNaN(a) \/ IsNaN(b) THEN NaN
    ELSE IF IsInf(a) THEN (IF IsInf(b) /\ b.m # a.m THEN NaN ELSE a)
    ELSE IF IsInf(b) THEN b
    ELSE IF a.m = 0 THEN b
    ELSE IF b.m = 0 THEN a
    ELSE IF a.x >= b.x
         THEN IF a.x - b.x > 4 THEN a
              ELSE Norm(a.m * Pow10(a.x - b.x) + b.m, b.x)
         ELSE IF b.x - a.x > 4 THEN b
              ELSE Norm(b.m * Pow10(b.x - a.x) + a.m, a.x)

\* the operator -
FSub(a, b) == FAdd(a, FNeg(b))

\* the operator *
FMul(a, b) ==
    IF IsNaN(a) \/ IsNaN(b) THEN NaN
    ELSE IF IsInf(a) \/ IsInf(b)
         THEN IF Sign(a) = 0 \/ Sign(b) = 0 THEN NaN
              ELSE IF Sign(a) * Sign(b) > 0 THEN PosInf ELSE NegInf
    ELSE Norm(a.m * b.m, a.x + b.x)

\* the operator /
FDiv(a, b) ==
    IF IsNaN(a) \/ IsNaN(b) THEN NaN
    ELSE IF IsInf(a)
         THEN IF IsInf(b) THEN NaN
              ELSE IF a.m * (IF Sign(b) < 0 THEN -1 ELSE 1) > 0 THEN PosInf ELSE NegInf
    ELSE IF IsInf(b) THEN Zero
    ELSE IF b.m = 0
         THEN IF a.m = 0 THEN NaN
              ELSE IF a.m > 0 THEN PosInf ELSE NegInf
    ELSE Norm(IntSign(a.m) * IntSign(b.m) * ((IntAbs(a.m) * 100000) \div IntAbs(b.m)),
              a.x - b.x - 5)

\* the largest r in lo..hi with r * r <= n
RECURSIVE ISqrt(_, _, _)
ISqrt(n, lo, hi) ==
    IF lo >= hi THEN lo
    ELSE LET mid == (lo + hi + 1) \div 2
         IN  IF mid * mid <= n THEN ISqrt(n, mid, hi) ELSE ISqrt(n, lo, mid - 1)

\* Math.sqrt
MathSqrt(a) ==
    IF IsNaN(a) THEN NaN
    ELSE IF IsInf(a) THEN (IF a.m > 0 THEN PosInf ELSE NaN)
    ELSE IF a.m < 0 THEN NaN
    ELSE IF a.m = 0 THEN Zero
    ELSE IF a.x % 2 = 0
         THEN Norm(ISqrt(a.m * 10000, 0, 46340), (a.x - 4) \div 2)
         ELSE Norm(ISqrt(a.m * 100000, 0, 46340), (a.x - 5) \div 2)

\* ln(m / d) * 10^5 for d <= m < 2d, by the series 2 * atanh((m - d) / (m + d))
LnSeries(m, d) ==
    LET z  == ((m - d) * 100000) \div (m + d)
        z2 == (z * z) \div 100000
        t3 == (z * z2) \div 100000
        t5 == (t3 * z2) \div 100000
        t7 == (t5 * z2) \div 100000
        t9 == (t7 * z2) \div 100000
    IN  2 * (z + (t3 \div 3) + (t5 \div 5) + (t7 \div 7) + (t9 \div 9))

\* ln(m / d) * 10^5 for m >= d: halve the argument until it is below 2
RECURSIVE LnMant(_, _)
LnMant(m, d) ==
    IF m < 2 * d THEN LnSeries(m, d) ELSE 69315 + LnMant(m, 2 * d)

\* Math.log
MathLog(a) ==
    IF IsNaN(a) THEN NaN
    ELSE IF IsInf(a) THEN (IF a.m > 0 THEN PosInf ELSE NaN)
    ELSE IF a.m < 0 THEN NaN
    ELSE IF a.m = 0 THEN NegInf
    ELSE Norm(LnMant(a.m, 1000) + (a.x + 3) * 230259, -5)

\* Math.round: the integer nearest to a, ties towards +Infinity
MathRound(a) ==
    IF ~IsFin(a) THEN a
    ELSE IF a.x >= 0 THEN a
    ELSE IF a.x < -5 THEN Zero
    ELSE FromInt((2 * a.m + Pow10(-a.x)) \div (2 * Pow10(-a.x)))

\* the global isFinite
IsFinite(a) == IsFin(a)

\* the global isNaN
IsNaNGlobal(a) == IsNaN(a)

\* the number n / 10^k
Decimal(n, k) == Norm(n, -k)

\* the integer value of an integer-valued finite number
IntValue(a) ==
    IF a.x >= 0 THEN a.m * Pow10(a.x) ELSE a.m \div Pow10(-a.x)

\* Math.pow(10, y) for the integer-valued exponents the rounding step computes
MathPow10(y) ==
    IF IsNaN(y) THEN NaN
    ELSE IF IsInf(y) THEN (IF y.m > 0 THEN PosInf ELSE Zero)
    ELSE [k |-> "fin", m |-> 1000, x |-> IntValue(y) - 3]

\* Math.floor of a finite number
MathFloor(a) ==
    IF ~IsFin(a) THEN a
    ELSE IF a.x >= 0 THEN a
    ELSE IF a.x < -5 THEN (IF a.m < 0 THEN FromInt(-1) ELSE Zero)
    ELSE FromInt(a.m \div Pow10(-a.x))

\* The decimal exponents e for which the double quotient Math.log(10^e) / Math.LN10
\* falls just below e (e.g. Math.log(1000) / Math.LN10 = 2.9999999999999996).
InexactPowersOfTen == {3, 6, 9, 12, 13, 15, 18, 21}

\* Math.floor(Math.log(s) / Math.LN10).  For a positive finite s the quotient is
\* computed in double precision: its floor is the decimal exponent of s, except at
\* the powers of ten of InexactPowersOfTen, where the quotient is just below it.
FloorLog10(s) ==
    IF IsFin(s) /\ s.m > 0
    THEN IF s.m = 1000 /\ (s.x + 3) \in InexactPowersOfTen
         THEN FromInt(s.x + 2)
         ELSE FromInt(s.x + 3)
    ELSE MathFloor(FDiv(MathLog(s), Decimal(230259, 5)))

(***************************************************************************)
(* sample_size_calc.ts                                                     *)
(***************************************************************************)
\* String(n): the decimal literal of a finite number stands for itself
NumberToString(n) ==
    IF IsNaN(n) THEN "NaN"
    ELSE IF IsInf(n) THEN (IF n.m > 0 THEN "Infinity" ELSE "-Infinity")
    ELSE <<n.m, n.x>>

\* parseFloat of the string of a number
ParseFloat(str) ==
    IF str = "NaN" THEN NaN
    ELSE IF str = "Infinity" THEN PosInf
    ELSE IF str = "-Infinity" THEN NegInf
    ELSE Norm(str[1], str[2])

isNumeric(n) == ~IsNaNGlobal(ParseFloat(NumberToString(n))) /\ IsFinite(n)

\* roundToSigFigs with the rescaling slip: Math.round(s * t) * t
roundToSigFigsTimes(n) ==
    LET s == MathRound(n)
        t == MathPow10(FSub(FSub(Two, FloorLog10(s)), One))
        a == FMul(MathRound(FMul(s, t)), t)
    IN  MathRound(a)

\* roundToSigFigs without the rescaling: Math.round(s * t)
roundToSigFigsNoRescale(n) ==
    LET s == MathRound(n)
        t == MathPow10(FSub(FSub(Two, FloorLog10(s)), One))
        a == MathRound(FMul(s, t))
    IN  MathRound(a)

roundToSigFigs(n) ==
    LET s == MathRound(n)
        t == MathPow10(FSub(FSub(Two, FloorLog10(s)), One))
        a == FDiv(MathRound(FMul(s, t)), t)
    IN  MathRound(a)

\* one candidate: (2 * (1 - significance) * variance * Math.log(1 + Math.sqrt(variance) / theta)) / (theta * theta)
sampleEstimateOf(significance, variance, theta) ==
    FDiv(FMul(FMul(FMul(Two, FSub(One, significance)), variance),
              MathLog(FAdd(One, FDiv(MathSqrt(variance), theta)))),
         FMul(theta, theta))

\* the variance estimate c1 * (1 - c1) + c * (1 - c)
varianceOf(c1, c) == FAdd(FMul(c1, FSub(One, c1)), FMul(c, FSub(One, c)))

\* the candidate the comparison selects
selectEstimate(sampleEstimate1, sampleEstimate2) ==
    IF FGe(MathAbs(sampleEstimate1), MathAbs(sampleEstimate2))
    THEN sampleEstimate1
    ELSE sampleEstimate2

\* the validation without its finiteness checks: isNaN(sampleEstimate) || sampleEstimate < 0
invalidEstimateNoFinite(sampleEstimate) ==
    IsNaNGlobal(sampleEstimate) \/ FLt(sampleEstimate, Zero)

\* the validation: !isNumeric(sampleEstimate) || !isFinite(sampleEstimate) || sampleEstimate < 0
invalidEstimate(sampleEstimate) ==
    ~isNumeric(sampleEstimate) \/ ~IsFinite(sampleEstimate) \/ FLt(sampleEstimate, Zero)

NotCalled ==
    [called |-> FALSE, sampleEstimate1 |-> null, sampleEstimate2 |-> null,
     sampleEstimate |-> null, rounded |-> FALSE, result |-> null]

\* sampleSizeEstimate, with the values it computes on the way
sampleSizeEstimateRun(conversionDecimal, effectDecimal, significanceDecimal) ==
    LET sig == FSub(One, significanceDecimal)
        absoluteMDE == FMul(conversionDecimal, effectDecimal)
        c1 == conversionDecimal
        c2 == FSub(conversionDecimal, absoluteMDE)
        c3 == FAdd(conversionDecimal, absoluteMDE)
        theta == MathAbs(absoluteMDE)
        variance1 == varianceOf(c1, c2)
        variance2 == varianceOf(c1, c3)
        sampleEstimate1 == sampleEstimateOf(sig, variance1, theta)
        sampleEstimate2 == sampleEstimateOf(sig, variance2, theta)
        sampleEstimate == selectEstimate(sampleEstimate1, sampleEstimate2)
        reject == invalidEstimate(sampleEstimate)
    IN  [called |-> TRUE, sampleEstimate1 |-> sampleEstimate1,
         sampleEstimate2 |-> sampleEstimate2, sampleEstimate |-> sampleEstimate,
         rounded |-> ~reject,
         result |-> IF reject THEN null ELSE roundToSigFigs(sampleEstimate)]

sampleSizeEstimate(conversionDecimal, effectDecimal, significanceDecimal) ==
    sampleSizeEstimateRun(conversionDecimal, effectDecimal, significanceDecimal).result

(***************************************************************************)
(* src/functions/OpalToolFunction.ts                                       *)
(***************************************************************************)
\* OpalToolFunction.isNumeric: typeof value === 'number' && !isNaN(value) && isFinite(value)
toolIsNumeric(value) == value.k \in {"NaN", "Inf", "fin"} /\ ~IsNaNGlobal(value) /\ IsFinite(value)

\* OpalToolFunction.roundToSigFigs
toolRoundToSigFigs(n) ==
    LET s == MathRound(n)
        t == MathPow10(FSub(FSub(Two, FloorLog10(s)), One))
        a == FDiv(MathRound(FMul(s, t)), t)
    IN  MathRound(a)

\* one candidate of calculateSampleSizeInternal
toolSampleEstimateOf(significance, variance, theta) ==
    FDiv(FMul(FMul(FMul(Two, FSub(One, significance)), variance),
              MathLog(FAdd(One, FDiv(MathSqrt(variance), theta)))),
         FMul(theta, theta))

\* the conversion without the division by 100: 1 - processedModels.significance
toolSignificanceNoPercent(percent) == FSub(One, percent)

\* the conversion of the significance percentage: 1 - processedModels.significance / 100
toolSignificance(percent) == FSub(One, FDiv(percent, FromInt(100)))

\* calculateSampleSizeInternal, with the values it computes on the way;
\* processedModels is a record with the fields effect, significance and conversion
calculateSampleSizeInternalRun(processedModels) ==
    LET relativeMDE == processedModels.effect
        sig == toolSignificance(processedModels.significance)
        baselineConversionRate == processedModels.conversion
        absoluteMDE == FMul(baselineConversionRate, relativeMDE)
        c1 == baselineConversionRate
        c2 == FSub(baselineConversionRate, absoluteMDE)
        c3 == FAdd(baselineConversionRate, absoluteMDE)
        theta == MathAbs(absoluteMDE)
        variance1 == FAdd(FMul(c1, FSub(One, c1)), FMul(c2, FSub(One, c2)))
        variance2 == FAdd(FMul(c1, FSub(One, c1)), FMul(c3, FSub(One, c3)))
        sampleEstimate1 == toolSampleEstimateOf(sig, variance1, theta)
        sampleEstimate2 == toolSampleEstimateOf(sig, variance2, theta)
        sampleEstimate == IF FGe(MathAbs(sampleEstimate1), MathAbs(sampleEstimate2))
                          THEN sampleEstimate1
                          ELSE sampleEstimate2
        reject == ~toolIsNumeric(sampleEstimate) \/ ~IsFinite(sampleEstimate)
                    \/ FLt(sampleEstimate, Zero)
    IN  [called |-> TRUE, sampleEstimate1 |-> sampleEstimate1,
         sampleEstimate2 |-> sampleEstimate2, sampleEstimate |-> sampleEstimate,
         rounded |-> ~reject,
         result |-> IF reject THEN null ELSE toolRoundToSigFigs(sampleEstimate)]

calculateSampleSizeInternal(processedModels) ==
    calculateSampleSizeInternalRun(processedModels).result

(***************************************************************************)
(* The pre-existing sampleSizeEstimate (ExistingSampleSizeCalc); its       *)
(* helpers isNumeric and roundToSigFigs are those of sample_size_calc.ts.  *)
(***************************************************************************)
existingSampleSizeEstimateRun(processedModels) ==
    LET relativeMDE == processedModels.effect
        sig == FSub(One, FDiv(processedModels.significance, FromInt(100)))
        baselineConversionRate == processedModels.conversion
        absoluteMDE == FMul(baselineConversionRate, relativeMDE)
        c1 == baselineConversionRate
        c2 == FSub(baselineConversionRate, absoluteMDE)
        c3 == FAdd(baselineConversionRate, absoluteMDE)
        theta == MathAbs(absoluteMDE)
        variance1 == FAdd(FMul(c1, FSub(One, c1)), FMul(c2, FSub(One, c2)))
        variance2 == FAdd(FMul(c1, FSub(One, c1)), FMul(c3, FSub(One, c3)))
        sampleEstimate1 ==
            FDiv(FMul(FMul(FMul(Two, FSub(One, sig)), variance1),
                      MathLog(FAdd(One, FDiv(MathSqrt(variance1), theta)))),
                 FMul(theta, theta))
        sampleEstimate2 ==
            FDiv(FMul(FMul(FMul(Two, FSub(One, sig)), variance2),
                      MathLog(FAdd(One, FDiv(MathSqrt(variance2), theta)))),
                 FMul(theta, theta))
        sampleEstimate == IF FGe(MathAbs(sampleEstimate1), MathAbs(sampleEstimate2))
                          THEN sampleEstimate1
                          ELSE sampleEstimate2
        reject == ~isNumeric(sampleEstimate) \/ ~IsFinite(sampleEstimate)
                    \/ FLt(sampleEstimate, Zero)
    IN  [called |-> TRUE, sampleEstimate1 |-> sampleEstimate1,
         sampleEstimate2 |-> sampleEstimate2, sampleEstimate |-> sampleEstimate,
         rounded |-> ~reject,
         result |-> IF reject THEN null ELSE roundToSigFigs(sampleEstimate)]

(***************************************************************************)
(* Arguments and invocations.                                              *)
(***************************************************************************)
\* effects range over -MaxEffect/10 .. MaxEffect/10 in steps of 0.1
MaxEffect == 20

\* direct roundToSigFigs calls range over the integers 0 .. MaxRoundInput
MaxRoundInput == 1300

\* baseline rates, in hundredths: inside (0, 1), on its ends and outside it
BaselineRates == {-50, -1, 0, 3, 10, 30, 50, 90, 99, 100, 101, 120}

Effects == (-MaxEffect)..MaxEffect

\* significance percentages: negative, zero, low and usual ones
Significances == {-5, 0, 10, 50, 95, 99}

RoundInputs == 0..MaxRoundInput

\* the arguments as numbers
Conversion(b) == Decimal(b, 2)

Effect(e) == Decimal(e, 1)

ProcessedModels(b, e, s) ==
    [effect |-> Effect(e), significance |-> FromInt(s), conversion |-> Conversion(b)]

\* sample_size_calc.ts takes the significance as a fraction: percent / 100
SignificanceDecimal(s) == FDiv(FromInt(s), FromInt(100))

\* the value of a property that is absent from an object
undefined == [k |-> "undefined", m |-> 0, x |-> 0]

\* no calculate_sample_size request has been handled
NoToolRun == [called |-> FALSE]

\* validateParameter has not been called
NotValidated == [called |-> FALSE]

\* the tool is idle
IdleTool == request = undefined /\ response = NoToolRun

\* nothing has been stored under monday_auth
NoSettings == [stored |-> FALSE]

\* no MondayClient has been constructed
NoClient == [constructed |-> FALSE]

\* no Monday.com call has been made
NotRun == [settled |-> "not run"]

\* the Monday.com integration is idle
IdleMonday ==
    /\ settings = NoSettings
    /\ validated = {}
    /\ toasts = <<>>
    /\ client = NoClient
    /\ requests = <<>>
    /\ outcome = NotRun

Init ==
    /\ IdleTool
    /\ IdleMonday
    /\ baselineRate \in BaselineRates
    /\ mde \in Effects
    /\ significancePercent \in Significances
    /\ libOut = NotCalled
    /\ toolOut = NotCalled
    /\ existingOut = NotCalled
    /\ roundIn = 0
    /\ roundOut = null
    /\ validateOut = NotValidated

\* the caller changes one argument; the results of the old arguments are dropped
SetBaselineRate(b) ==
    /\ UNCHANGED outsideEstimator
    /\ b # baselineRate
    /\ baselineRate' = b
    /\ libOut' = NotCalled /\ toolOut' = NotCalled /\ existingOut' = NotCalled
    /\ UNCHANGED <<mde, significancePercent, roundIn, roundOut>>

SetMde(e) ==
    /\ UNCHANGED outsideEstimator
    /\ e # mde
    /\ mde' = e
    /\ libOut' = NotCalled /\ toolOut' = NotCalled /\ existingOut' = NotCalled
    /\ UNCHANGED <<baselineRate, significancePercent, roundIn, roundOut>>

SetSignificance(s) ==
    /\ UNCHANGED outsideEstimator
    /\ s # significancePercent
    /\ significancePercent' = s
    /\ libOut' = NotCalled /\ toolOut' = NotCalled /\ existingOut' = NotCalled
    /\ UNCHANGED <<baselineRate, mde, roundIn, roundOut>>

CallSampleSizeEstimate ==
    /\ UNCHANGED outsideEstimator
    /\ libOut' = sampleSizeEstimateRun(Conversion(baselineRate), Effect(mde),
                                       SignificanceDecimal(significancePercent))
    /\ UNCHANGED <<baselineRate, mde, significancePercent, toolOut, existingOut,
                   roundIn, roundOut>>

CallCalculateSampleSizeInternal ==
    /\ UNCHANGED outsideEstimator
    /\ toolOut' = calculateSampleSizeInternalRun(
                      ProcessedModels(baselineRate, mde, significancePercent))
    /\ UNCHANGED <<baselineRate, mde, significancePercent, libOut, existingOut,
                   roundIn, roundOut>>

CallExistingSampleSizeEstimate ==
    /\ UNCHANGED outsideEstimator
    /\ existingOut' = existingSampleSizeEstimateRun(
                          ProcessedModels(baselineRate, mde, significancePercent))
    /\ UNCHANGED <<baselineRate, mde, significancePercent, libOut, toolOut,
                   roundIn, roundOut>>

Next ==
    \/ \E b \in BaselineRates : SetBaselineRate(b)
    \/ \E e \in Effects : SetMde(e)
    \/ \E s \in Significances : SetSignificance(s)
    \/ CallSampleSizeEstimate
    \/ CallCalculateSampleSizeInternal
    \/ CallExistingSampleSizeEstimate

Spec == Init /\ [][Next]_vars

(***************************************************************************)
(* roundToSigFigs as a function of its own: every integer argument.        *)
(***************************************************************************)
InitRound ==
    /\ IdleTool
    /\ IdleMonday
    /\ baselineRate = 3
    /\ mde = 2
    /\ significancePercent = 95
    /\ libOut = NotCalled
    /\ toolOut = NotCalled
    /\ existingOut = NotCalled
    /\ roundIn \in RoundInputs
    /\ roundOut = null
    /\ validateOut = NotValidated

CallRoundToSigFigs ==
    /\ UNCHANGED outsideEstimator
    /\ roundOut' = roundToSigFigs(FromInt(roundIn))
    /\ UNCHANGED <<baselineRate, mde, significancePercent, libOut, toolOut,
                   existingOut, roundIn>>

CallToolRoundToSigFigs ==
    /\ UNCHANGED outsideEstimator
    /\ roundOut' = toolRoundToSigFigs(FromInt(roundIn))
    /\ UNCHANGED <<baselineRate, mde, significancePercent, libOut, toolOut,
                   existingOut, roundIn>>

NextRound == CallRoundToSigFigs \/ CallToolRoundToSigFigs

SpecRound == InitRound /\ [][NextRound]_vars

(***************************************************************************)
(* validateParameter (sample_size_calc.ts).                                *)
(***************************************************************************)
\* enum DEFAULT_VALUES
DEFAULT_VALUES ==
    [conversion |-> Decimal(3, 2), effect |-> Decimal(2, 1), significance |-> Decimal(95, 2)]

\* formatNumber, for 0 < n < 1, where validateParameter calls it: n.toString()
\* is in exponent form below 0.000001 and has the integer part '0' otherwise
formatNumber(n) ==
    IF FLt(n, Decimal(1, 6)) THEN Decimal(1, 4) ELSE n

\* validateParameter
validateParameter(value, parameter) ==
    IF parameter \notin DOMAIN DEFAULT_VALUES
    THEN [k |-> "thrown", message |-> <<"Invalid parameter: ", parameter>>]
    ELSE LET i == DEFAULT_VALUES[parameter]
         IN  IF IsNaN(value) THEN i
             ELSE IF parameter \in {"conversion", "effect"}
             THEN IF ~FLt(Zero, value) THEN i
                  ELSE IF FLt(value, One) THEN formatNumber(value)
                  ELSE value
             ELSE IF FLt(value, FromInt(80)) \/ FLt(FromInt(99), value) THEN i
             ELSE value

\* direct validateParameter calls range over the integers up to MaxValidateInput
\* in absolute value, the hundredths between 0 and 1, a number below
\* 0.000001, NaN and the infinities
MaxValidateInput == 100

ValidateInputs ==
    {NaN, PosInf, NegInf, Decimal(1, 7)}
        \cup {FromInt(n) : n \in (-MaxValidateInput)..MaxValidateInput}
        \cup {Decimal(n, 2) : n \in 1..99}

(***************************************************************************)
(* calculateSampleSize, the handler of the calculate_sample_size tool      *)
(* (src/functions/OpalToolFunction.ts).                                    *)
(***************************************************************************)
\* a string value: the sequence of its characters
String(chars) == [k |-> "string", chars |-> chars]

UpperCaseLetters ==
    <<"A", "B", "C", "D", "E", "F", "G", "H", "I", "J", "K", "L", "M",
      "N", "O", "P", "Q", "R", "S", "T", "U", "V", "W", "X", "Y", "Z">>

LowerCaseLetters ==
    <<"a", "b", "c", "d", "e", "f", "g", "h", "i", "j", "k", "l", "m",
      "n", "o", "p", "q", "r", "s", "t", "u", "v", "w", "x", "y", "z">>

\* the character c with the letters of the sequence from replaced by those of to
MapLetter(c, from, to) ==
    IF \E j \in DOMAIN from : from[j] = c
    THEN to[CHOOSE j \in DOMAIN from : from[j] = c]
    ELSE c

\* String.prototype.toLowerCase
toLowerCase(str) ==
    String([i \in DOMAIN str.chars |->
                MapLetter(str.chars[i], UpperCaseLetters, LowerCaseLetters)])

\* String.prototype.toUpperCase
toUpperCase(str) ==
    String([i \in DOMAIN str.chars |->
                MapLetter(str.chars[i], LowerCaseLetters, UpperCaseLetters)])

\* String.prototype.charAt
charAt(str, i) ==
    IF i + 1 \in DOMAIN str.chars THEN String(<<str.chars[i + 1]>>) ELSE String(<<>>)

\* String.prototype.slice(from)
slice(str, from) == String(SubSeq(str.chars, from + 1, Len(str.chars)))

\* the operator + of two strings
Concat(a, b) == String(a.chars \o b.chars)

\* a value that the operator || skips: undefined, null, 0, NaN, '' and false
Falsy(v) ==
    \/ v.k \in {"undefined", "null", "NaN"}
    \/ v.k = "fin" /\ v.m = 0
    \/ v.k = "string" /\ Len(v.chars) = 0
    \/ v.k = "boolean" /\ ~v.b

\* v || default
orDefault(v, default) == IF Falsy(v) THEN default ELSE v

monthly == String(<<"m", "o", "n", "t", "h", "l", "y">>)

weekly == String(<<"w", "e", "e", "k", "l", "y">>)

daily == String(<<"d", "a", "i", "l", "y">>)

\* the defaults of calculateSampleSize
DefaultBaselineRate == Decimal(1, 1)

DefaultMde == Decimal(5, 2)

DefaultSignificance == FromInt(95)

DefaultVariants == Two

DefaultVisitors == FromInt(10000)

DefaultFrequency == monthly

InvalidParametersMessage ==
    "Invalid calculation parameters - unable to compute sample size"

\* the test that lets every core result through
noResultNever(sampleSize) == FALSE

\* sampleSize === null
noResult(sampleSize) == sampleSize = null

\* the multiplier applied from two variants on
variantMultiplierFromTwo(variants) == IF FGe(variants, Two) THEN variants ELSE One

\* variants > 2 ? variants : 1
variantMultiplierOf(variants) == IF FLt(Two, variants) THEN variants ELSE One

\* the daily traffic with the weekly count divided by 30
visitorsCountDaysWeeklyBy30(visitorsCount, visitorsFrequency) ==
    IF toLowerCase(visitorsFrequency) = monthly THEN FDiv(visitorsCount, FromInt(30))
    ELSE IF toLowerCase(visitorsFrequency) = weekly THEN FDiv(visitorsCount, FromInt(30))
    ELSE IF toLowerCase(visitorsFrequency) = daily THEN visitorsCount
    ELSE Zero

\* the daily traffic: visitorsCountDays starts at 0 and is assigned in one of
\* the three branches on visitorsFrequency.toLowerCase()
visitorsCountDaysOf(visitorsCount, visitorsFrequency) ==
    IF toLowerCase(visitorsFrequency) = monthly THEN FDiv(visitorsCount, FromInt(30))
    ELSE IF toLowerCase(visitorsFrequency) = weekly THEN FDiv(visitorsCount, FromInt(7))
    ELSE IF toLowerCase(visitorsFrequency) = daily THEN visitorsCount
    ELSE Zero

\* calculateSampleSize from the core estimate on, with the values it computes
\* on the way.  params is a record with the fields baselineRate, mde,
\* significance, variants, visitors and frequency; an absent field holds
\* undefined.  Nothing in the body throws for such a record, so the catch
\* clause is not entered.
calculateSampleSizeFrom(params, sampleSize) ==
    LET baselineRateArg == orDefault(params.baselineRate, DefaultBaselineRate)
        mdeArg == orDefault(params.mde, DefaultMde)
        significance == orDefault(params.significance, DefaultSignificance)
        variants == orDefault(params.variants, DefaultVariants)
        visitorsCount == orDefault(params.visitors, DefaultVisitors)
        visitorsFrequency == orDefault(params.frequency, DefaultFrequency)
        variantMultiplier == variantMultiplierOf(variants)
        adjustedSampleSize == FMul(sampleSize, variantMultiplier)
        totalSampleSize == FMul(adjustedSampleSize, variants)
        visitorsCountDays == visitorsCountDaysOf(visitorsCount, visitorsFrequency)
        visitorsCountDaysPerVariant == FDiv(visitorsCountDays, variants)
        daysToRun == FDiv(adjustedSampleSize, visitorsCountDaysPerVariant)
        weeksToRun == FDiv(daysToRun, FromInt(7))
        monthsToRun == FDiv(daysToRun, FromInt(30))
        used == [baselineRate |-> baselineRateArg, mde |-> mdeArg,
                 significance |-> significance, variants |-> variants,
                 visitors |-> visitorsCount, frequency |-> visitorsFrequency]
    IN  IF noResult(sampleSize)
        THEN [called |-> TRUE, sampleSize |-> sampleSize, used |-> used,
              result |-> [success |-> FALSE, message |-> InvalidParametersMessage,
                          data |-> undefined]]
        ELSE [called |-> TRUE, sampleSize |-> sampleSize, used |-> used,
              result |->
                [success |-> TRUE, message |-> "",
                 data |-> [sampleSizePerVariant |-> adjustedSampleSize,
                           totalSampleSize |-> MathRound(totalSampleSize),
                           daysToRun |-> MathRound(daysToRun),
                           weeksToRun |-> MathRound(weeksToRun),
                           monthsToRun |-> MathRound(monthsToRun),
                           variantMultiplier |-> MathRound(variantMultiplier),
                           visitorsCount |-> MathRound(visitorsCount),
                           visitorsFrequency |->
                               Concat(toUpperCase(charAt(visitorsFrequency, 0)),
                                      slice(visitorsFrequency, 1)),
                           visitorsCountDays |-> MathRound(visitorsCountDays),
                           baselineRate |-> baselineRateArg,
                           expectedLift |-> mdeArg,
                           significance |-> significance,
                           variants |-> variants]]]

\* calculateSampleSize: the core estimate of processedModels is computed once
\* and the rest of the body works with that value
calculateSampleSizeRun(params) ==
    LET processedModels == [effect |-> orDefault(params.mde, DefaultMde),
                            significance |->
                                orDefault(params.significance, DefaultSignificance),
                            conversion |->
                                orDefault(params.baselineRate, DefaultBaselineRate)]
    IN  CHOOSE run \in {calculateSampleSizeFrom(params, sampleSize) :
                            sampleSize \in {calculateSampleSizeInternal(processedModels)}} :
            TRUE

calculateSampleSize(params) == calculateSampleSizeRun(params).result

\* the largest number of variants a request asks for
MaxVariants == 4

BaselineRateParams == {undefined, Zero, Decimal(3, 2), Decimal(5, 1), Decimal(12, 1)}

MdeParams == {undefined, Zero, Decimal(2, 1), One}

SignificanceParams == {undefined, Zero, FromInt(90), FromInt(95)}

VariantsParams == {undefined} \cup {FromInt(n) : n \in 0..MaxVariants}

VisitorsParams == {undefined, Zero, FromInt(700), FromInt(3000)}

FrequencyParams ==
    {undefined, String(<<>>), monthly,
     String(<<"W", "e", "e", "k", "l", "y">>),
     String(<<"D", "A", "I", "L", "Y">>),
     String(<<"y", "e", "a", "r", "l", "y">>)}

\* the requests of the tool
Requests ==
    [baselineRate : BaselineRateParams, mde : MdeParams,
     significance : SignificanceParams, variants : VariantsParams,
     visitors : VisitorsParams, frequency : FrequencyParams]

\* no estimator call is in progress
IdleEstimator ==
    /\ baselineRate = 3
    /\ mde = 2
    /\ significancePercent = 95
    /\ libOut = NotCalled
    /\ toolOut = NotCalled
    /\ existingOut = NotCalled
    /\ roundIn = 0
    /\ roundOut = null
    /\ validateOut = NotValidated

\* validateParameter is called on its own
InitValidate == IdleEstimator /\ IdleTool /\ IdleMonday

CallValidateParameter ==
    /\ \E value \in ValidateInputs,
          parameter \in {"conversion", "effect", "significance", "variants"} :
          validateOut' = [called |-> TRUE, value |-> value, parameter |-> parameter,
                          result |-> validateParameter(value, parameter)]
    /\ UNCHANGED <<baselineRate, mde, significancePercent, libOut, toolOut, existingOut,
                   roundIn, roundOut>>
    /\ UNCHANGED <<toolVars, mondayVars>>

NextValidate == CallValidateParameter

SpecValidate == InitValidate /\ [][NextValidate]_vars

\* a calculate_sample_size request has arrived
InitTool ==
    /\ IdleEstimator
    /\ IdleMonday
    /\ request \in Requests
    /\ response = NoToolRun

\* the request is answered, once
CallCalculateSampleSize ==
    /\ ~response.called
    /\ response' = calculateSampleSizeRun(request)
    /\ UNCHANGED <<request, estimatorVars, mondayVars>>

NextTool == CallCalculateSampleSize

SpecTool == InitTool /\ [][NextTool]_vars

(***************************************************************************)
(* Monday-Integration-OCP: Lifecycle.onSettingsForm                        *)
(* (src/lifecycle/Lifecycle.ts).                                           *)
(***************************************************************************)
WhiteSpace == {" ", "\t", "\n"}

RECURSIVE TrimStart(_)
\* the characters of chars from the first one that is not white space
TrimStart(chars) ==
    IF Len(chars) = 0 THEN chars
    ELSE IF Head(chars) \in WhiteSpace THEN TrimStart(Tail(chars))
    ELSE chars

RECURSIVE TrimEnd(_)
\* the characters of chars up to the last one that is not white space
TrimEnd(chars) ==
    IF Len(chars) = 0 THEN chars
    ELSE IF chars[Len(chars)] \in WhiteSpace
         THEN TrimEnd(SubSeq(chars, 1, Len(chars) - 1))
    ELSE chars

\* String.prototype.trim
trim(str) == String(TrimEnd(TrimStart(str.chars)))

\* the test that accepts every token that is not falsy
blankTokenNoTrim(apiToken) == Falsy(apiToken)

\* !apiToken || apiToken.trim() === ''
blankToken(apiToken) ==
    IF Falsy(apiToken) THEN TRUE ELSE trim(apiToken) = String(<<>>)

\* what is stored by storage.settings.put('monday_auth', formData)
Stored(formData) == [stored |-> TRUE, api_token |-> formData.api_token]

\* onSettingsForm that stores the submitted form whatever the test call says
onSettingsFormAlwaysStoring(store, section, action, formData, testResponse, putThrows) ==
    [settings |-> Stored(formData), tested |-> {}, requests |-> <<>>, responses |-> <<>>,
     toasts |-> <<[intent |-> "success",
                  message |-> "API token validated successfully!"]>>]

\* onSettingsForm on the settings store, with the answer of the test API call
\* (ok, not ok, or fetch throws) and whether storage.settings.put throws;
\* tested is the token the test call answered ok for, if any; requests and
\* responses are the test call and its answer, if the call was made
onSettingsForm(store, section, action, formData, testResponse, putThrows) ==
    LET Returns(stored, added) ==
            [settings |-> stored, tested |-> {}, requests |-> <<>>, responses |-> <<>>,
             toasts |-> added]
        Tested(stored, added) ==
            [settings |-> stored,
             tested |-> IF testResponse = "ok" THEN {formData.api_token} ELSE {},
             requests |-> <<[authorization |-> formData.api_token, operation |-> "me",
                             variables |-> <<>>]>>,
             responses |-> <<testResponse>>,
             toasts |-> added]
    IN  IF section = "monday_auth" /\ action = "save_token"
        THEN IF putThrows
             THEN Returns(store, <<[intent |-> "danger",
                                    message |-> "Sorry, an unexpected error occurred. Please try again in a moment."]>>)
             ELSE Returns(Stored(formData),
                          <<[intent |-> "success",
                             message |-> "Monday.com API token saved successfully!"]>>)
        ELSE IF section = "monday_auth" /\ action = "validate_token"
        THEN IF blankToken(formData.api_token)
             THEN Returns(store, <<[intent |-> "warning",
                                    message |-> "Please enter a Monday.com API token."]>>)
             ELSE IF testResponse = "throws"
             THEN Tested(store, <<[intent |-> "warning",
                                   message |-> "Failed to validate token. Please check your connection and try again."]>>)
             ELSE IF testResponse = "ok"
             THEN IF putThrows
                  THEN Tested(store, <<[intent |-> "warning",
                                        message |-> "Failed to validate token. Please check your connection and try again."]>>)
                  ELSE Tested(Stored(formData),
                              <<[intent |-> "success",
                                 message |-> "API token validated successfully!"]>>)
             ELSE Tested(store, <<[intent |-> "warning",
                                   message |-> "Invalid API token. Please check your token and try again."]>>)
        ELSE Returns(store, <<>>)

\* the values of formData.api_token
ApiTokens ==
    {undefined, String(<<>>), String(<<" ">>), String(<<"a">>), String(<<"b">>),
     String(<<" ", "a", " ">>)}

InitSettings == IdleEstimator /\ IdleTool /\ IdleMonday

(***************************************************************************)
(* Monday-Integration-OCP: MondayClient (src/lifecycle/Lifecycle.ts from   *)
(* line 151 on).  A message is the sequence of the pieces it is            *)
(* concatenated from.                                                      *)
(***************************************************************************)
\* a promise that resolved with value
Resolved(value) == [settled |-> "resolved", value |-> value, error |-> <<>>]

\* a promise that rejected, or a call that threw, with an Error of this message
Rejected(error) == [settled |-> "rejected", value |-> undefined, error |-> error]

\* the outcome of fetch: it throws, or it resolves with a response; data tells
\* whether the boards, items or created item asked for are in result.data
\* ("found"), the list is there and empty ("empty"), or it is not there
\* ("missing")
HttpResponse(kind, ok, errors, data) ==
    [kind |-> kind, ok |-> ok, errors |-> errors, data |-> data]

\* what the remote side may answer to one request
Responses ==
    {HttpResponse("throws", FALSE, <<>>, "none"),
     HttpResponse("response", FALSE, <<>>, "none"),
     HttpResponse("response", TRUE, <<"e1", "e2">>, "found"),
     HttpResponse("response", TRUE, <<>>, "found"),
     HttpResponse("response", TRUE, <<>>, "missing"),
     HttpResponse("response", TRUE, <<>>, "empty")}

\* Array.prototype.join(', ') of the error messages
Join(messages) ==
    [i \in 1..(2 * Len(messages) - 1) |->
        IF i % 2 = 1 THEN messages[(i + 1) \div 2] ELSE ", "]

\* new MondayClient(apiToken)
MondayClient(apiToken) ==
    IF blankToken(apiToken)
    THEN Rejected(<<"Monday.com API token is required">>)
    ELSE Resolved([constructed |-> TRUE, apiToken |-> apiToken])

\* executeGraphQL that looks at the HTTP status only
executeGraphQLIgnoringErrors(answer) ==
    IF answer.kind = "throws" THEN Rejected(<<"request to https://api.monday.com/v2 failed">>)
    ELSE IF ~answer.ok
         THEN Rejected(<<"Monday.com API error", ": ", "status statusText - errorText">>)
    ELSE Resolved([data |-> answer.data])

\* executeGraphQL on the answer to its request
executeGraphQL(answer) ==
    IF answer.kind = "throws" THEN Rejected(<<"request to https://api.monday.com/v2 failed">>)
    ELSE IF ~answer.ok
         THEN Rejected(<<"Monday.com API error", ": ", "status statusText - errorText">>)
    ELSE IF Len(answer.errors) > 0
         THEN Rejected(<<"Monday.com GraphQL errors", ": ">> \o Join(answer.errors))
    ELSE Resolved([data |-> answer.data])

\* a run of a client method: the requests it sent, the answers it received
\* and how the method settled
Run(sent, received, result) ==
    [requests |-> sent, responses |-> received, attempts |-> <<>>, result |-> result]

\* the runs of one executeGraphQL call: the HTTP request it sends to
\* https://api.monday.com/v2, the answer, and how the call settles
executeGraphQLRuns(apiToken, operation, variables) ==
    {Run(<<[authorization |-> apiToken, operation |-> operation,
           variables |-> variables]>>, <<r>>, executeGraphQL(r)) :
        r \in Responses}

Success(data) == [success |-> TRUE, data |-> data]

status_1 == String(<<"s", "t", "a", "t", "u", "s", "_", "1">>)

notes == String(<<"n", "o", "t", "e", "s">>)

\* the board the remote side holds
TheBoard ==
    [id |-> "board1",
     columns |-> <<[id |-> notes,
                    title |-> String(<<"S", "t", "a", "t", "u", "s">>),
                    type |-> String(<<"t", "e", "x", "t">>)],
                   [id |-> String(<<"c", "o", "u", "n", "t">>),
                    title |-> String(<<"C", "o", "u", "n", "t">>),
                    type |-> String(<<"n", "u", "m", "b", "e", "r", "s">>)],
                   [id |-> String(<<"t", "a", "g", "s">>),
                    title |-> String(<<"T", "a", "g", "s">>),
                    type |-> String(<<"t", "a", "g", "s">>)],
                   [id |-> String(<<"s", "i", "z", "e">>),
                    title |-> String(<<"S", "a", "m", "p", "l", "e", " ", "S", "i", "z", "e">>),
                    type |-> String(<<"n", "u", "m", "b", "e", "r", "s">>)]>>]

\* listBoards
listBoardsRuns(apiToken, limit) ==
    {Run(e.requests, e.responses,
         IF e.result.settled = "resolved"
         THEN Resolved(Success(IF e.result.value.data = "found" THEN <<TheBoard>> ELSE <<>>))
         ELSE e.result) :
        e \in executeGraphQLRuns(apiToken, "boards", [limit |-> limit])}

\* getBoard that does not look at the list of boards
getBoardRunsAnyList(apiToken, boardId) ==
    {Run(e.requests, e.responses,
         IF e.result.settled # "resolved" THEN e.result
         ELSE Resolved(Success(TheBoard))) :
        e \in executeGraphQLRuns(apiToken, "board", [boardId |-> <<boardId>>])}

\* getBoard
getBoardRuns(apiToken, boardId) ==
    {Run(e.requests, e.responses,
         IF e.result.settled # "resolved" THEN e.result
         ELSE IF e.result.value.data # "found"
              THEN Rejected(<<"Board with ID ", boardId, " not found">>)
         ELSE Resolved(Success(TheBoard))) :
        e \in executeGraphQLRuns(apiToken, "board", [boardId |-> <<boardId>>])}

\* getItem
getItemRuns(apiToken, itemId) ==
    {Run(e.requests, e.responses,
         IF e.result.settled # "resolved" THEN e.result
         ELSE IF e.result.value.data # "found"
              THEN Rejected(<<"Item with ID ", itemId, " not found">>)
         ELSE Resolved(Success([id |-> itemId]))) :
        e \in executeGraphQLRuns(apiToken, "items", [itemId |-> <<itemId>>])}

\* String.prototype.startsWith
startsWith(str, prefix) ==
    /\ Len(str.chars) >= Len(prefix.chars)
    /\ SubSeq(str.chars, 1, Len(prefix.chars)) = prefix.chars

\* JSON.stringify
Json(value) == [json |-> value]

\* an object: the sequence of its entries, each an id and a value
Object(entries) == [k |-> "object", entries |-> entries]

\* the string literals of formatColumnValue
Literals ==
    [label |-> String(<<"l", "a", "b", "e", "l">>),
     date |-> String(<<"d", "a", "t", "e">>),
     personsAndTeams |-> String(<<"p", "e", "r", "s", "o", "n", "s", "A", "n", "d", "T", "e", "a", "m", "s">>),
     tag_ids |-> String(<<"t", "a", "g", "_", "i", "d", "s">>),
     ids |-> String(<<"i", "d", "s">>),
     rating |-> String(<<"r", "a", "t", "i", "n", "g">>),
     checked |-> String(<<"c", "h", "e", "c", "k", "e", "d">>),
     number |-> String(<<"n", "u", "m", "b", "e", "r">>),
     from |-> String(<<"f", "r", "o", "m">>),
     to |-> String(<<"t", "o">>),
     url |-> String(<<"u", "r", "l">>),
     text |-> String(<<"t", "e", "x", "t">>),
     quotedText |-> String(<<"\"", "t", "e", "x", "t", "\"">>),
     address |-> String(<<"a", "d", "d", "r", "e", "s", "s">>),
     lat |-> String(<<"l", "a", "t">>),
     lng |-> String(<<"l", "n", "g">>),
     id |-> String(<<"i", "d">>),
     kind |-> String(<<"k", "i", "n", "d">>),
     person |-> String(<<"p", "e", "r", "s", "o", "n">>),
     value |-> String(<<"v", "a", "l", "u", "e">>),
     start |-> String(<<"s", "t", "a", "r", "t">>),
     end |-> String(<<"e", "n", "d">>),
     hour |-> String(<<"h", "o", "u", "r">>),
     minute |-> String(<<"m", "i", "n", "u", "t", "e">>),
     week |-> String(<<"w", "e", "e", "k">>),
     year |-> String(<<"y", "e", "a", "r">>),
     percentage |-> String(<<"p", "e", "r", "c", "e", "n", "t", "a", "g", "e">>),
     true |-> String(<<"t", "r", "u", "e">>),
     false |-> String(<<"f", "a", "l", "s", "e">>),
     one |-> String(<<"1">>),
     yes |-> String(<<"y", "e", "s">>),
     null |-> String(<<"n", "u", "l", "l">>),
     undefined |-> String(<<"u", "n", "d", "e", "f", "i", "n", "e", "d">>),
     NaN |-> String(<<"N", "a", "N">>),
     Infinity |-> String(<<"I", "n", "f", "i", "n", "i", "t", "y">>),
     objectObject |-> String(<<"[", "o", "b", "j", "e", "c", "t", " ", "O", "b", "j", "e", "c", "t", "]">>),
     brace |-> String(<<"{">>),
     empty |-> String(<<>>),
     status |-> String(<<"s", "t", "a", "t", "u", "s">>),
     people |-> String(<<"p", "e", "o", "p", "l", "e">>),
     tags |-> String(<<"t", "a", "g", "s">>),
     dropdown |-> String(<<"d", "r", "o", "p", "d", "o", "w", "n">>),
     checkbox |-> String(<<"c", "h", "e", "c", "k", "b", "o", "x">>),
     numeric |-> String(<<"n", "u", "m", "e", "r", "i", "c">>),
     numbers |-> String(<<"n", "u", "m", "b", "e", "r", "s">>),
     timeline |-> String(<<"t", "i", "m", "e", "l", "i", "n", "e">>),
     link |-> String(<<"l", "i", "n", "k">>),
     location |-> String(<<"l", "o", "c", "a", "t", "i", "o", "n">>),
     long_text |-> String(<<"l", "o", "n", "g", "_", "t", "e", "x", "t">>),
     email |-> String(<<"e", "m", "a", "i", "l">>),
     phone |-> String(<<"p", "h", "o", "n", "e">>),
     progress_tracking |-> String(<<"p", "r", "o", "g", "r", "e", "s", "s", "_", "t", "r", "a", "c", "k", "i", "n", "g">>)]

\* 'key' in value, for an object
In(key, value) ==
    /\ value.k = "object"
    /\ \E i \in DOMAIN value.entries : value.entries[i].id = key

\* value[key]: the property of an object, undefined when it has none
Get(value, key) ==
    IF In(key, value)
    THEN value.entries[CHOOSE i \in DOMAIN value.entries : value.entries[i].id = key].value
    ELSE undefined

\* String.prototype.includes
includes(str, sub) ==
    \E i \in 0..(Len(str.chars) - Len(sub.chars)) :
        SubSeq(str.chars, i + 1, i + Len(sub.chars)) = sub.chars

DecimalDigits == <<"0", "1", "2", "3", "4", "5", "6", "7", "8", "9">>

\* the decimal digits of a natural number
RECURSIVE DigitChars(_)
DigitChars(n) ==
    IF n < 10 THEN <<DecimalDigits[n + 1]>>
    ELSE Append(DigitChars(n \div 10), DecimalDigits[(n % 10) + 1])

\* the natural number of a sequence of decimal digits
RECURSIVE DigitsValue(_)
DigitsValue(chars) ==
    IF Len(chars) = 0 THEN 0
    ELSE 10 * DigitsValue(SubSeq(chars, 1, Len(chars) - 1))
            + ((CHOOSE d \in DOMAIN DecimalDigits : DecimalDigits[d] = chars[Len(chars)]) - 1)

\* the characters of String(a) for a number a that is written without an
\* exponent (1e-6 <= |a| < 1e21)
NumberChars(a) ==
    IF IsNaN(a) THEN Literals.NaN.chars
    ELSE IF IsInf(a)
    THEN (IF a.m < 0 THEN <<"-">> ELSE <<>>) \o Literals.Infinity.chars
    ELSE IF a.m = 0 THEN <<"0">>
    ELSE LET z == CHOOSE z \in 0..3 :
                      /\ IntAbs(a.m) % Pow10(z) = 0
                      /\ IntAbs(a.m) % Pow10(z + 1) # 0
             m == IntAbs(a.m) \div Pow10(z)
             x == a.x + z
         IN  (IF a.m < 0 THEN <<"-">> ELSE <<>>) \o
             (IF x >= 0 THEN DigitChars(m * Pow10(x))
              ELSE DigitChars(m \div Pow10(-x)) \o <<".">>
                       \o Tail(DigitChars(Pow10(-x) + (m % Pow10(-x)))))

\* Array.prototype.join of pieces of text
RECURSIVE JoinChars(_, _)
JoinChars(pieces, separator) ==
    IF Len(pieces) = 0 THEN <<>>
    ELSE IF Len(pieces) = 1 THEN pieces[1]
    ELSE pieces[1] \o separator \o JoinChars(Tail(pieces), separator)

\* String(value)
RECURSIVE StringOf(_)
StringOf(value) ==
    CASE value.k = "string" -> value
      [] value.k \in {"fin", "NaN", "Inf"} -> String(NumberChars(value))
      [] value.k = "boolean" -> IF value.b THEN Literals.true ELSE Literals.false
      [] value.k = "null" -> Literals.null
      [] value.k = "undefined" -> Literals.undefined
      [] value.k = "array" ->
            String(JoinChars([i \in DOMAIN value.items |->
                                 IF value.items[i].k \in {"null", "undefined"} THEN <<>>
                                 ELSE StringOf(value.items[i]).chars],
                             <<",">>))
      [] value.k = "object" -> Literals.objectObject

\* Number(value); a string is read as a decimal literal (optional sign, digits,
\* optional fraction), as Infinity or, when it is blank, as 0
RECURSIVE NumberOf(_)
NumberOf(value) ==
    CASE value.k \in {"fin", "NaN", "Inf"} -> value
      [] value.k = "boolean" -> IF value.b THEN One ELSE Zero
      [] value.k = "null" -> Zero
      [] value.k = "undefined" -> NaN
      [] value.k = "object" -> NaN
      [] value.k = "array" -> NumberOf(StringOf(value))
      [] value.k = "string" ->
            LET c == trim(value).chars
                negative == Len(c) > 0 /\ c[1] = "-"
                unsigned == IF negative THEN Tail(c) ELSE c
                points == {i \in DOMAIN unsigned : unsigned[i] = "."}
                digits == SelectSeq(unsigned, LAMBDA ch : ch # ".")
                fraction == IF points = {} THEN 0
                            ELSE Len(unsigned) - (CHOOSE i \in points : TRUE)
            IN  IF Len(c) = 0 THEN Zero
                ELSE IF unsigned = Literals.Infinity.chars
                THEN (IF negative THEN NegInf ELSE PosInf)
                ELSE IF /\ Len(digits) > 0
                        /\ Cardinality(points) <= 1
                        /\ \A i \in DOMAIN digits :
                              \E d \in DOMAIN DecimalDigits : DecimalDigits[d] = digits[i]
                THEN Norm((IF negative THEN -1 ELSE 1) * DigitsValue(digits), -fraction)
                ELSE NaN

\* JSON.parse of the text of an object with one string property,
\* {"key":"value"}; any other text counts as not being JSON
JsonParse(str) ==
    LET c == str.chars
        quotes == {i \in DOMAIN c : c[i] = "\""}
        q == CHOOSE i \in quotes : i > 2 /\ \A j \in quotes : j > 2 => j >= i
    IN  IF /\ Len(c) >= 7
           /\ c[1] = "{"
           /\ c[Len(c)] = "}"
           /\ Cardinality(quotes) = 4
           /\ 2 \in quotes
           /\ (Len(c) - 1) \in quotes
           /\ (q + 2) \in quotes
           /\ c[q + 1] = ":"
        THEN [ok |-> TRUE,
              value |-> Object(<<[id |-> String(SubSeq(c, 3, q - 1)),
                                  value |-> String(SubSeq(c, q + 3, Len(c) - 2))]>>)]
        ELSE [ok |-> FALSE, value |-> undefined]

\* the characters of JSON.stringify(value), for strings without quotes
RECURSIVE JsonStringify(_)
JsonStringify(value) ==
    CASE value.k = "string" -> <<"\"">> \o value.chars \o <<"\"">>
      [] value.k = "fin" -> NumberChars(value)
      [] value.k \in {"NaN", "Inf", "null", "undefined"} -> Literals.null.chars
      [] value.k = "boolean" -> IF value.b THEN Literals.true.chars ELSE Literals.false.chars
      [] value.k = "array" ->
            <<"[">> \o JoinChars([i \in DOMAIN value.items |->
                                     JsonStringify(value.items[i])], <<",">>)
                    \o <<"]">>
      [] value.k = "object" ->
            <<"{">> \o JoinChars([i \in DOMAIN value.entries |->
                                     <<"\"">> \o value.entries[i].id.chars \o <<"\"", ":">>
                                         \o JsonStringify(value.entries[i].value)],
                                 <<",">>)
                    \o <<"}">>

\* formatColumnValue, for values that are not Date objects
formatColumnValue(value, columnType) ==
    LET L == Literals
        \* value && typeof value === 'object'
        isObject == value.k \in {"object", "array"}
        isNumber == value.k \in {"fin", "NaN", "Inf"}
        Obj1(key, v) == Object(<<[id |-> key, value |-> v]>>)
        Obj2(key1, v1, key2, v2) ==
            Object(<<[id |-> key1, value |-> v1], [id |-> key2, value |-> v2]>>)
        ArrayOf(items) == [k |-> "array", items |-> items]
        Strings(items) == ArrayOf([i \in DOMAIN items |-> StringOf(items[i])])
        num == IF isNumber THEN value ELSE NumberOf(value)
        \* Math.max(0, Math.min(high, Math.round(n)))
        Clamp(n, high) ==
            IF FLt(MathRound(n), Zero) THEN Zero
            ELSE IF FLt(FromInt(high), MathRound(n)) THEN FromInt(high)
            ELSE MathRound(n)
        NumberOr0(v) == IF IsNaN(NumberOf(v)) THEN Zero ELSE NumberOf(v)
        looksLikeJson == startsWith(value, L.brace) /\ includes(value, L.label)
        t == toLowerCase(columnType)
    IN  IF /\ value.k = "object"
           /\ \E key \in {L.label, L.date, L.personsAndTeams, L.tag_ids, L.ids, L.rating,
                          L.checked, L.number, L.from, L.url, L.address} : In(key, value)
        THEN value
        ELSE IF Falsy(columnType)
        THEN IF value.k = "string"
             THEN IF looksLikeJson /\ JsonParse(value).ok THEN JsonParse(value).value
                  ELSE value
             ELSE IF isNumber THEN StringOf(value)
             ELSE IF value.k = "boolean" THEN StringOf(value)
             ELSE IF value.k = "array" THEN String(JsonStringify(value))
             ELSE IF value.k = "object" THEN value
             ELSE StringOf(value)
        ELSE CASE t = L.status ->
                    IF value.k = "string"
                    THEN IF looksLikeJson /\ JsonParse(value).ok THEN JsonParse(value).value
                         ELSE Obj1(L.label, value)
                    ELSE Obj1(L.label, StringOf(value))
               [] t = L.date ->
                    IF value.k = "string" THEN Obj1(L.date, value)
                    ELSE Obj1(L.date, StringOf(value))
               [] t = L.people ->
                    IF value.k = "array"
                    THEN Obj1(L.personsAndTeams,
                              ArrayOf([i \in DOMAIN value.items |->
                                  IF In(L.id, value.items[i])
                                  THEN Obj2(L.id, StringOf(Get(value.items[i], L.id)),
                                            L.kind, orDefault(Get(value.items[i], L.kind),
                                                              L.person))
                                  ELSE Obj2(L.id, StringOf(value.items[i]),
                                            L.kind, L.person)]))
                    ELSE Obj1(L.personsAndTeams,
                              ArrayOf(<<Obj2(L.id, StringOf(value), L.kind, L.person)>>))
               [] t = L.tags ->
                    IF value.k = "array" THEN Obj1(L.tag_ids, Strings(value.items))
                    ELSE Obj1(L.tag_ids, Strings(<<value>>))
               [] t = L.dropdown ->
                    IF value.k = "array" THEN Obj1(L.ids, Strings(value.items))
                    ELSE Obj1(L.ids, Strings(<<value>>))
               [] t = L.rating ->
                    IF ~IsNaN(num) THEN Obj1(L.rating, Clamp(num, 5))
                    ELSE Obj1(L.rating, Zero)
               [] t = L.checkbox ->
                    IF value.k = "boolean" THEN Obj1(L.checked, StringOf(value))
                    ELSE IF value.k = "string"
                    THEN IF toLowerCase(value) \in {L.true, L.one, L.yes}
                         THEN Obj1(L.checked, L.true)
                         ELSE Obj1(L.checked, L.false)
                    ELSE Obj1(L.checked, L.false)
               [] t \in {L.numeric, L.numbers} ->
                    IF ~IsNaN(num) THEN num
                    ELSE IF isObject /\ In(L.value, value) THEN NumberOr0(Get(value, L.value))
                    ELSE Zero
               [] t = L.timeline ->
                    IF isObject
                    THEN IF In(L.start, value) /\ In(L.end, value)
                         THEN Obj2(L.from, StringOf(Get(value, L.start)),
                                   L.to, StringOf(Get(value, L.end)))
                         ELSE value
                    ELSE Object(<<>>)
               [] t = L.link ->
                    IF value.k = "string" THEN Obj2(L.url, value, L.text, value)
                    ELSE IF isObject THEN value
                    ELSE Obj2(L.url, L.empty, L.text, L.empty)
               [] t = L.location ->
                    IF value.k = "string"
                    THEN Object(<<[id |-> L.address, value |-> value],
                                  [id |-> L.lat, value |-> null],
                                  [id |-> L.lng, value |-> null]>>)
                    ELSE IF isObject
                    THEN Object(<<[id |-> L.address,
                                   value |-> IF Falsy(Get(value, L.address)) THEN L.empty
                                             ELSE StringOf(Get(value, L.address))],
                                  [id |-> L.lat,
                                   value |-> IF Get(value, L.lat) = undefined THEN null
                                             ELSE NumberOf(Get(value, L.lat))],
                                  [id |-> L.lng,
                                   value |-> IF Get(value, L.lng) = undefined THEN null
                                             ELSE NumberOf(Get(value, L.lng))]>>)
                    ELSE Object(<<[id |-> L.address, value |-> L.empty],
                                  [id |-> L.lat, value |-> null],
                                  [id |-> L.lng, value |-> null]>>)
               [] t \in {L.text, L.email, L.phone} -> StringOf(value)
               [] t = L.long_text ->
                    IF value.k = "object"
                    THEN IF In(L.text, value)
                         THEN Obj1(L.text, StringOf(Get(value, L.text)))
                         ELSE IF In(L.quotedText, value)
                         THEN Obj1(L.text, StringOf(Get(value, L.quotedText)))
                         ELSE IF \E i \in DOMAIN value.entries :
                                    includes(value.entries[i].id, L.text)
                         THEN Obj1(L.text, StringOf(value.entries[
                                  CHOOSE i \in DOMAIN value.entries :
                                      /\ includes(value.entries[i].id, L.text)
                                      /\ \A j \in 1..(i - 1) :
                                            ~includes(value.entries[j].id, L.text)].value))
                         ELSE IF /\ Len(value.entries) = 1
                                 /\ value.entries[1].value.k = "string"
                         THEN Obj1(L.text, value.entries[1].value)
                         ELSE Obj1(L.text, StringOf(value))
                    ELSE Obj1(L.text, StringOf(value))
               [] t = L.hour ->
                    IF isObject /\ In(L.hour, value) THEN value
                    ELSE Obj2(L.hour, Zero, L.minute, Zero)
               [] t = L.week ->
                    IF isObject /\ In(L.week, value) THEN value
                    ELSE Obj2(L.week, One, L.year, FromInt(2026))
               [] t = L.progress_tracking ->
                    IF ~IsNaN(num) THEN Obj1(L.percentage, Clamp(num, 100))
                    ELSE IF isObject /\ In(L.percentage, value) THEN value
                    ELSE Obj1(L.percentage, Zero)
               [] OTHER ->
                    IF value.k = "object" THEN value ELSE StringOf(value)

\* inferColumnTypeFromId
inferColumnTypeFromId(columnId) ==
    LET L == Literals
        idLower == toLowerCase(columnId)
        Prefixed(type) == startsWith(idLower, Concat(type, String(<<"_">>)))
    IN  IF Prefixed(L.numeric) \/ Prefixed(L.numbers) THEN L.numeric
        ELSE IF Prefixed(L.text) THEN L.text
        ELSE IF Prefixed(L.long_text) THEN L.long_text
        ELSE IF Prefixed(L.status) THEN L.status
        ELSE IF Prefixed(L.date) THEN L.date
        ELSE IF Prefixed(L.people) THEN L.people
        ELSE IF Prefixed(L.tags) THEN L.tags
        ELSE IF Prefixed(L.dropdown) THEN L.dropdown
        ELSE IF Prefixed(L.rating) THEN L.rating
        ELSE IF Prefixed(L.checkbox) THEN L.checkbox
        ELSE undefined

\* the type looked up without the board's columns
typeToFormatByIdOnly(columns, columnId) == inferColumnTypeFromId(columnId)

\* the type createItem and updateItemColumnValue format the column by:
\* columnTypes.get(columnId), or the type inferred from the id
typeToFormatBy(columns, columnId) ==
    LET named == {i \in DOMAIN columns : columns[i].id = columnId}
        last == CHOOSE i \in named : \A j \in named : j <= i
    IN  IF named = {} THEN inferColumnTypeFromId(columnId)
        ELSE IF Falsy(columns[last].type) THEN inferColumnTypeFromId(columnId)
        ELSE columns[last].type

\* the test that fetches the board for every columnValues object
hasColumnValuesAnyObject(columnValues) == columnValues.k = "object"

\* columnValues && Object.keys(columnValues).length > 0
hasColumnValues(columnValues) ==
    IF columnValues.k # "object" THEN FALSE ELSE Len(columnValues.entries) > 0

\* the create_item mutation of createItem with the given JSON text
createItemMutationRuns(apiToken, boardId, itemName, groupId, columnValuesJson) ==
    {Run(e.requests, e.responses,
         IF e.result.settled = "resolved"
         THEN Resolved(Success([create_item |-> e.result.value.data, name |-> itemName]))
         ELSE e.result) :
        e \in executeGraphQLRuns(apiToken, "create_item",
                  [boardId |-> boardId, itemName |-> itemName,
                   groupId |-> IF Falsy(groupId) THEN undefined ELSE groupId,
                   columnValues |-> columnValuesJson])}

\* createItem
createItemRuns(apiToken, boardId, itemName, groupId, columnValues) ==
    IF hasColumnValues(columnValues)
    THEN UNION {
           IF b.result.settled # "resolved" THEN {b}
           ELSE {Run(b.requests \o m.requests, b.responses \o m.responses, m.result) :
                   m \in createItemMutationRuns(apiToken, boardId, itemName, groupId,
                           Json([i \in DOMAIN columnValues.entries |->
                                   [id |-> columnValues.entries[i].id,
                                    value |-> formatColumnValue(
                                        columnValues.entries[i].value,
                                        typeToFormatBy(b.result.value.data.columns,
                                                       columnValues.entries[i].id))]]))} :
           b \in getBoardRuns(apiToken, boardId)}
    ELSE createItemMutationRuns(apiToken, boardId, itemName, groupId, Json(<<>>))

\* updateItemColumnValue
updateItemColumnValueRuns(apiToken, boardId, itemId, columnId, value) ==
    UNION {
      IF b.result.settled # "resolved" THEN {b}
      ELSE {Run(b.requests \o e.requests, b.responses \o e.responses,
                IF e.result.settled = "resolved"
                THEN Resolved(Success([change_column_value |-> e.result.value.data]))
                ELSE e.result) :
              e \in executeGraphQLRuns(apiToken, "change_column_value",
                      [boardId |-> boardId, itemId |-> itemId, columnId |-> columnId,
                       value |-> Json(formatColumnValue(value,
                                   typeToFormatBy(b.result.value.data.columns, columnId)))])} :
      b \in getBoardRuns(apiToken, boardId)}

RECURSIVE batchLoopStopping(_, _, _, _)
RECURSIVE batchLoop(_, _, _, _)

\* the loop that stops at the first item that fails
batchLoopStopping(apiToken, boardId, items, n) ==
    IF n = 0 THEN {[requests |-> <<>>, responses |-> <<>>, results |-> <<>>, attempts |-> <<>>]}
    ELSE UNION {
           IF \E j \in DOMAIN done.results : ~done.results[j].success THEN {done}
           ELSE {[requests |-> done.requests \o c.requests,
                  responses |-> done.responses \o c.responses,
                  results |-> Append(done.results,
                      IF c.result.settled = "resolved" THEN c.result.value
                      ELSE [success |-> FALSE, error |-> c.result.error,
                            itemName |-> items[n].name]),
                  attempts |-> Append(done.attempts, items[n].name)] :
                   c \in createItemRuns(apiToken, boardId, items[n].name,
                                        items[n].groupId, items[n].columnValues)} :
           done \in batchLoopStopping(apiToken, boardId, items, n - 1)}

\* the loop of createItemsBatch over the first n items: the requests sent, the
\* results pushed and the names of the items createItem was called for
batchLoop(apiToken, boardId, items, n) ==
    IF n = 0 THEN {[requests |-> <<>>, responses |-> <<>>, results |-> <<>>, attempts |-> <<>>]}
    ELSE UNION {
           {[requests |-> done.requests \o c.requests,
             responses |-> done.responses \o c.responses,
             results |-> Append(done.results,
                      IF c.result.settled = "resolved" THEN c.result.value
                      ELSE [success |-> FALSE, error |-> c.result.error,
                            itemName |-> items[n].name]),
             attempts |-> Append(done.attempts, items[n].name)] :
              c \in createItemRuns(apiToken, boardId, items[n].name,
                                   items[n].groupId, items[n].columnValues)} :
           done \in batchLoop(apiToken, boardId, items, n - 1)}

\* createItemsBatch
createItemsBatchRuns(apiToken, boardId, items) ==
    {[requests |-> loop.requests, responses |-> loop.responses,
      attempts |-> loop.attempts,
      result |-> Resolved(Success([created |-> SelectSeq(loop.results, LAMBDA r : r.success),
                                   failed |-> SelectSeq(loop.results, LAMBDA r : ~r.success)]))] :
        loop \in batchLoop(apiToken, boardId, items, Len(items))}

(***************************************************************************)
(* Monday-Integration-OCP: the tool handlers                               *)
(* (src/functions/OpalToolFunction.ts).                                    *)
(***************************************************************************)
\* getApiToken that returns whatever is stored
getApiTokenUnchecked(store) ==
    IF "fails" \in DOMAIN store \/ ~store.stored
    THEN Rejected(<<"Monday.com API token not configured",
                    ". Please configure it in the app settings.">>)
    ELSE Resolved(store.api_token)

\* getApiToken: the token stored under monday_auth, or the error its catch
\* clause throws when storage.settings.get rejects, nothing is stored or the
\* stored token is blank
getApiToken(store) ==
    IF "fails" \in DOMAIN store
    THEN Rejected(<<"Monday.com API token not configured",
                    ". Please configure it in the app settings.">>)
    ELSE IF ~store.stored
    THEN Rejected(<<"Monday.com API token not configured",
                    ". Please configure it in the app settings.">>)
    ELSE IF blankToken(store.api_token)
    THEN Rejected(<<"Monday.com API token not configured",
                    ". Please configure it in the app settings.">>)
    ELSE Resolved(store.api_token)

\* ready: true when getApiToken resolves, false when it rejects
ready(store) == getApiToken(store).settled = "resolved"

\* a handler that lets the error through: the promise rejects
handlerCatchRethrows(prefix, error) == Rejected(error)

\* the catch clause of a handler
handlerCatch(prefix, error) ==
    Resolved([success |-> FALSE, message |-> <<prefix, ": ">> \o error])

\* a handler's run that ends in its catch clause
CaughtRun(prefix, error, sent, received) ==
    [requests |-> sent, responses |-> received, attempts |-> <<>>, caught |-> error,
     result |-> handlerCatch(prefix, error)]

\* the try block shared by the handlers: getApiToken, new MondayClient, the
\* client call, return result; clientCall gives the runs of the client call
\* for each token the client can be constructed with
handlerRuns(prefix, store, clientCall) ==
    UNION {
      IF token.settled # "resolved" THEN {CaughtRun(prefix, token.error, <<>>, <<>>)}
      ELSE UNION {
             IF made.settled # "resolved"
             THEN {CaughtRun(prefix, made.error, <<>>, <<>>)}
             ELSE {IF run.result.settled = "resolved"
                   THEN [requests |-> run.requests, responses |-> run.responses,
                         attempts |-> run.attempts, caught |-> <<>>,
                         result |-> Resolved(run.result.value)]
                   ELSE CaughtRun(prefix, run.result.error, run.requests, run.responses) :
                     run \in clientCall[made.value.apiToken]} :
             made \in {MondayClient(token.value)}} :
      token \in {getApiToken(store)}}

\* columnMap.get(key) of a map that holds the ids only
columnMapGetByIdOnly(boardColumns, key) ==
    IF \E i \in DOMAIN boardColumns : boardColumns[i].id = key
    THEN key
    ELSE undefined

\* columnMap.get(key): the id of the last column whose lower-cased title or
\* whose id is key, or undefined
columnMapGet(boardColumns, key) ==
    IF \E i \in DOMAIN boardColumns :
          toLowerCase(boardColumns[i].title) = key \/ boardColumns[i].id = key
    THEN boardColumns[CHOOSE i \in DOMAIN boardColumns :
             /\ toLowerCase(boardColumns[i].title) = key \/ boardColumns[i].id = key
             /\ \A j \in DOMAIN boardColumns :
                   (toLowerCase(boardColumns[j].title) = key \/ boardColumns[j].id = key)
                       => j <= i].id
    ELSE undefined

status == String(<<"s", "t", "a", "t", "u", "s">>)

\* columnValues[columnId] = value
SetColumnValue(columnValues, columnId, value) ==
    IF \E j \in DOMAIN columnValues : columnValues[j].id = columnId
    THEN [j \in DOMAIN columnValues |->
            IF columnValues[j].id = columnId
            THEN [id |-> columnId, value |-> value] ELSE columnValues[j]]
    ELSE Append(columnValues, [id |-> columnId, value |-> value])

\* the fields a research type maps to common column names
TypedFields(researchType) ==
    LET t == toLowerCase(researchType)
    IN  IF t \in {String(<<"e", "x", "p", "e", "r", "i", "m", "e", "n", "t", "_", "p", "l", "a", "n">>),
                  String(<<"e", "x", "p", "e", "r", "i", "m", "e", "n", "t">>)}
        THEN <<[field |-> status, column |-> status],
               [field |-> String(<<"h", "y", "p", "o", "t", "h", "e", "s", "i", "s">>),
                column |-> String(<<"h", "y", "p", "o", "t", "h", "e", "s", "i", "s">>)],
               [field |-> String(<<"s", "a", "m", "p", "l", "e", "_", "s", "i", "z", "e">>),
                column |-> String(<<"s", "a", "m", "p", "l", "e", " ", "s", "i", "z", "e">>)]>>
        ELSE IF t \in {String(<<"e", "x", "p", "e", "r", "i", "m", "e", "n", "t", "_", "r", "e", "s", "u", "l", "t", "s">>),
                       String(<<"r", "e", "s", "u", "l", "t", "s">>)}
        THEN <<[field |-> String(<<"o", "u", "t", "c", "o", "m", "e">>),
                column |-> String(<<"o", "u", "t", "c", "o", "m", "e">>)],
               [field |-> String(<<"r", "e", "c", "o", "m", "m", "e", "n", "d", "a", "t", "i", "o", "n">>),
                column |-> String(<<"r", "e", "c", "o", "m", "m", "e", "n", "d", "a", "t", "i", "o", "n">>)]>>
        ELSE IF t \in {String(<<"a", "u", "d", "i", "t", "_", "r", "e", "p", "o", "r", "t">>),
                       String(<<"a", "u", "d", "i", "t">>)}
        THEN <<[field |-> String(<<"s", "c", "o", "r", "e">>), column |-> String(<<"s", "c", "o", "r", "e">>)],
               [field |-> String(<<"f", "i", "n", "d", "i", "n", "g", "s">>),
                column |-> String(<<"f", "i", "n", "d", "i", "n", "g", "s">>)]>>
        ELSE <<>>

\* the mapping of the first n fields of the research type
RECURSIVE typedMapping(_, _, _, _)
typedMapping(researchData, boardColumns, fields, n) ==
    IF n = 0 THEN <<>>
    ELSE LET before == typedMapping(researchData, boardColumns, fields, n - 1)
         IN  IF /\ ~Falsy(Get(researchData, fields[n].field))
                /\ columnMapGet(boardColumns, fields[n].column) # undefined
             THEN SetColumnValue(before, columnMapGet(boardColumns, fields[n].column),
                                 Get(researchData, fields[n].field))
             ELSE before

\* the generic mapping loop over the first n entries of researchData, after
\* the columns the research type has filled in
RECURSIVE genericMapping(_, _, _, _)
genericMapping(researchData, boardColumns, typed, n) ==
    IF n = 0 THEN typed
    ELSE UNION {
           {IF /\ ~Falsy(columnId)
               /\ \A j \in DOMAIN before :
                     before[j].id = columnId => Falsy(before[j].value)
            THEN SetColumnValue(before, columnId, researchData.entries[n].value)
            ELSE before :
              columnId \in {columnMapGet(boardColumns,
                                         toLowerCase(researchData.entries[n].id))}} :
           before \in genericMapping(researchData, boardColumns, typed, n - 1)}

\* transformResearchDataToColumnValues
transformResearchDataToColumnValues(researchType, researchData, boardColumns) ==
    Object(CHOOSE filled \in genericMapping(researchData, boardColumns,
              {typedMapping(researchData, boardColumns, TypedFields(researchType),
                            Len(TypedFields(researchType)))},
              Len(researchData.entries)) : TRUE)

\* mondayCreateResearchItem that creates the item without the board
createResearchItemRunsWithoutBoard(apiToken, params) ==
    UNION {
      {Run(b.requests \o c.requests, b.responses \o c.responses,
           IF c.result.settled # "resolved" THEN c.result
           ELSE Resolved(Success([item |-> c.result.value.data,
                                  researchType |-> params.researchType,
                                  transformedColumns |-> <<>>]))) :
         c \in createItemRuns(apiToken, params.boardId, params.itemName,
                              params.groupId, Object(<<>>))} :
      b \in getBoardRuns(apiToken, params.boardId)}

\* the client calls of mondayCreateResearchItem: getBoard, then createItem
\* with the transformed column values
createResearchItemRuns(apiToken, params) ==
    UNION {
      IF b.result.settled # "resolved" THEN {b}
      ELSE UNION {
             {Run(b.requests \o c.requests, b.responses \o c.responses,
                  IF c.result.settled # "resolved" THEN c.result
                  ELSE Resolved(Success([item |-> c.result.value.data,
                                         researchType |-> params.researchType,
                                         transformedColumns |->
                                             [i \in DOMAIN columnValues.entries |->
                                                 columnValues.entries[i].id]]))) :
                c \in createItemRuns(apiToken, params.boardId, params.itemName,
                                     params.groupId, columnValues)} :
             columnValues \in {transformResearchDataToColumnValues(params.researchType,
                                   params.researchData, b.result.value.data.columns)}} :
      b \in getBoardRuns(apiToken, params.boardId)}

\* the error prefix of each tag and file handler
TagAndFileHandlers ==
    [mondayUploadFile |-> "Error uploading file",
     mondayAddFileToItem |-> "Error adding file to item",
     mondayGetFile |-> "Error getting file",
     mondayGetItemFiles |-> "Error getting item files",
     mondayCreateOrGetTag |-> "Error creating or getting tag",
     mondayGetBoardTags |-> "Error getting board tags",
     mondayGetItemTags |-> "Error getting item tags",
     mondayGetItemsByTag |-> "Error getting items by tag"]

\* a client method of the tag and file handlers: one request, and a success
\* record when it is answered
tagOrFileClientRuns(apiToken, method) ==
    {Run(e.requests, e.responses,
         IF e.result.settled = "resolved" THEN Resolved(Success(e.result.value.data))
         ELSE e.result) :
        e \in executeGraphQLRuns(apiToken, method, <<>>)}

(***************************************************************************)
(* The Monday.com calls as a state machine: a client is constructed and    *)
(* one of its methods is called, or a tool handler is called, against a    *)
(* settings store that onSettingsForm has filled.                          *)
(***************************************************************************)
\* the largest number of items of a batch
MaxItems == 2

Done == String(<<"D", "o", "n", "e">>)

\* the columnValues arguments
ColumnValuesArgs ==
    {undefined, Object(<<>>),
     Object(<<[id |-> status_1, value |-> Done]>>),
     Object(<<[id |-> notes, value |-> Done], [id |-> String(<<"c", "1">>), value |-> Done]>>)}

\* columnValues arguments for the number, text and tags columns of the board
TypedColumnValues ==
    {Object(<<[id |-> String(<<"c", "o", "u", "n", "t">>), value |-> FromInt(42)],
              [id |-> notes, value |-> Done],
              [id |-> String(<<"t", "a", "g", "s">>),
               value |-> [k |-> "array",
                          items |-> <<String(<<"t", "a", "g", "1">>),
                                      String(<<"t", "a", "g", "2">>)>>]]>>),
     Object(<<[id |-> String(<<"c", "o", "u", "n", "t">>), value |-> String(<<"4", "2">>)],
              [id |-> notes, value |-> FromInt(7)],
              [id |-> String(<<"t", "a", "g", "s">>),
               value |-> [k |-> "array", items |-> <<One, Two>>]]>>)}

GroupIds == {undefined, String(<<"t", "o", "p", "i", "c", "s">>)}

\* the name of the n-th item of a batch
ItemName(n) == <<"item", n>>

\* the items arguments: up to MaxItems items, named by their position
ItemsArgs ==
    UNION {{[i \in 1..n |-> [name |-> ItemName(i), groupId |-> undefined,
                             columnValues |-> columnValuesAt[i]]] :
              columnValuesAt \in [1..n -> ColumnValuesArgs \ {Object(<<>>)}]} :
           n \in 0..MaxItems}

\* a call that has settled
Outcome(layer, op, args, run) ==
    [layer |-> layer, op |-> op, args |-> args, settled |-> run.result.settled,
     value |-> run.result.value, error |-> run.result.error,
     responses |-> run.responses, attempts |-> run.attempts,
     caught |-> IF layer = "handler" THEN run.caught ELSE <<>>]

\* a settings form is submitted and handled
SubmitSettingsForm ==
    /\ \E section \in {"monday_auth", "other_section"},
          action \in {"save_token", "validate_token", "other_action"},
          formData \in [api_token : ApiTokens],
          testResponse \in {"ok", "not ok", "throws"}, putThrows \in BOOLEAN :
          \E run \in {onSettingsForm(settings, section, action, formData,
                                     testResponse, putThrows)} :
              /\ settings' = run.settings
              /\ toasts' = run.toasts
              /\ validated' = validated \cup run.tested
              /\ requests' = run.requests
              /\ outcome' = Outcome("lifecycle", "onSettingsForm",
                                    [section |-> section, action |-> action,
                                     formData |-> formData, store |-> settings],
                                    Run(run.requests, run.responses,
                                        Resolved(run.toasts)))
    /\ UNCHANGED <<estimatorVars, toolVars, client>>

NextSettings == SubmitSettingsForm

SpecSettings == InitSettings /\ [][NextSettings]_vars

\* the settings store holds what onSettingsForm can have stored under
\* monday_auth, or its get fails; no client is constructed and no call is made
InitMonday ==
    /\ IdleEstimator
    /\ IdleTool
    /\ settings \in {NoSettings, [stored |-> FALSE, fails |-> TRUE]}
                      \cup {Stored(formData) : formData \in [api_token : ApiTokens]}
    /\ validated = {}
    /\ toasts = <<>>
    /\ client = NoClient
    /\ requests = <<>>
    /\ outcome = NotRun

\* code constructs a client
ConstructMondayClient ==
    /\ ~client.constructed
    /\ outcome = NotRun
    /\ \E apiToken \in ApiTokens :
          \E made \in {MondayClient(apiToken)} :
              IF made.settled = "resolved"
              THEN client' = made.value /\ UNCHANGED <<requests, outcome>>
              ELSE /\ outcome' = Outcome("constructor", "MondayClient",
                                         [apiToken |-> apiToken],
                                         Run(<<>>, <<>>, made))
                   /\ UNCHANGED <<client, requests>>
    /\ UNCHANGED <<estimatorVars, toolVars, settings, validated, toasts>>

\* the call of a client method settles with one of its runs
ClientCallSettles(op, args, runs) ==
    /\ client.constructed
    /\ outcome = NotRun
    /\ \E run \in runs :
          /\ requests' = run.requests
          /\ outcome' = Outcome("client", op, args, run)
    /\ UNCHANGED <<estimatorVars, toolVars, settings, validated, toasts, client>>

ListBoards ==
    \E limit \in {FromInt(50), FromInt(10)} :
        ClientCallSettles("listBoards", [limit |-> limit],
            listBoardsRuns(client.apiToken, limit))

GetBoard ==
    ClientCallSettles("getBoard", [boardId |-> "board1"],
        getBoardRuns(client.apiToken, "board1"))

GetItem ==
    ClientCallSettles("getItem", [itemId |-> "item1"],
        getItemRuns(client.apiToken, "item1"))

CreateItem ==
    \E groupId \in GroupIds, columnValues \in ColumnValuesArgs \cup TypedColumnValues :
        ClientCallSettles("createItem",
            [boardId |-> "board1", itemName |-> ItemName(1), groupId |-> groupId,
             columnValues |-> columnValues],
            createItemRuns(client.apiToken, "board1", ItemName(1), groupId, columnValues))

UpdateItemColumnValue ==
    \E columnId \in {status_1, notes} :
        ClientCallSettles("updateItemColumnValue",
            [boardId |-> "board1", itemId |-> "item1", columnId |-> columnId,
             value |-> Done],
            updateItemColumnValueRuns(client.apiToken, "board1", "item1", columnId, Done))

CreateItemsBatch ==
    \E items \in ItemsArgs :
        ClientCallSettles("createItemsBatch", [boardId |-> "board1", items |-> items],
            createItemsBatchRuns(client.apiToken, "board1", items))

\* the column types formatColumnValue is called with: none, the types it
\* knows, one in capitals and one it does not know
ColumnTypes ==
    {undefined, String(<<"S", "t", "a", "t", "u", "s">>), String(<<"m", "i", "r", "r", "o", "r">>)}
        \cup {Literals[type] : type \in
                 {"status", "date", "people", "tags", "dropdown", "rating", "checkbox",
                  "numeric", "numbers", "timeline", "link", "location", "text",
                  "long_text", "email", "phone", "hour", "week", "progress_tracking"}}

\* the values formatColumnValue is called with
FormatValues ==
    {undefined, null, [k |-> "boolean", b |-> TRUE], [k |-> "boolean", b |-> FALSE],
     NaN, Zero, FromInt(7), FromInt(42), FromInt(150), Decimal(25, 1),
     String(<<>>), Done, String(<<"4", "2">>), String(<<"y", "e", "s">>),
     String(<<"{", "\"", "l", "a", "b", "e", "l", "\"", ":", "\"", "D", "o", "n", "e", "\"", "}">>),
     String(<<"{", "\"", "l", "a", "b", "e", "l", "s", "\"", ":", "\"", "D", "o", "n", "e", "\"", "}">>),
     [k |-> "array", items |-> <<>>],
     [k |-> "array", items |-> <<One, Two>>],
     [k |-> "array", items |-> <<String(<<"t", "a", "g", "1">>),
                                 String(<<"t", "a", "g", "2">>)>>],
     [k |-> "array", items |-> <<Object(<<[id |-> Literals.id, value |-> FromInt(7)]>>)>>],
     Object(<<>>),
     Object(<<[id |-> Literals.label, value |-> Done]>>),
     Object(<<[id |-> Literals.text, value |-> FromInt(42)]>>),
     Object(<<[id |-> Literals.quotedText, value |-> Done]>>),
     Object(<<[id |-> Literals.value, value |-> String(<<"4", "2">>)]>>),
     Object(<<[id |-> Literals.start, value |-> Done], [id |-> Literals.end, value |-> Done]>>),
     Object(<<[id |-> Literals.lat, value |-> String(<<"4", "2">>)]>>),
     Object(<<[id |-> Literals.hour, value |-> FromInt(7)]>>),
     Object(<<[id |-> Literals.week, value |-> FromInt(7)]>>),
     Object(<<[id |-> Literals.percentage, value |-> FromInt(150)]>>),
     Object(<<[id |-> notes, value |-> Done]>>)}

\* formatColumnValue is called on a value
FormatColumnValue ==
    \E value \in FormatValues, columnType \in ColumnTypes :
        ClientCallSettles("formatColumnValue", [value |-> value, columnType |-> columnType],
            {Run(<<>>, <<>>, Resolved(formatColumnValue(value, columnType)))})

\* the call of a tool handler settles with one of its runs
HandlerSettles(op, args, runs) ==
    /\ ~client.constructed
    /\ outcome = NotRun
    /\ \E run \in runs :
          /\ requests' = run.requests
          /\ outcome' = Outcome("handler", op, args, run)
    /\ UNCHANGED <<estimatorVars, toolVars, settings, validated, toasts, client>>

\* mondayListBoards is called and settles
MondayListBoards ==
    \E params \in [limit : {undefined, FromInt(10)}] :
        HandlerSettles("Error listing boards", params,
            handlerRuns("Error listing boards", settings,
                [apiToken \in ApiTokens |->
                    listBoardsRuns(apiToken, orDefault(params.limit, FromInt(50)))]))

\* mondayGetBoard is called and settles
MondayGetBoard ==
    \E params \in [boardId : {"board1"}] :
        HandlerSettles("Error getting board", params,
            handlerRuns("Error getting board", settings,
                [apiToken \in ApiTokens |-> getBoardRuns(apiToken, params.boardId)]))

\* mondayCreateItem is called and settles
MondayCreateItem ==
    \E params \in [boardId : {"board1"}, itemName : {ItemName(1)}, groupId : GroupIds,
                    columnValues : ColumnValuesArgs \cup TypedColumnValues] :
        HandlerSettles("Error creating item", params,
            handlerRuns("Error creating item", settings,
                [apiToken \in ApiTokens |->
                    createItemRuns(apiToken, params.boardId, params.itemName,
                                   params.groupId, params.columnValues)]))

\* mondayUpdateItemColumn is called and settles
MondayUpdateItemColumn ==
    \E params \in [boardId : {"board1"}, itemId : {"item1"},
                    columnId : {status_1, notes}, value : {Done}] :
        HandlerSettles("Error updating item column", params,
            handlerRuns("Error updating item column", settings,
                [apiToken \in ApiTokens |->
                    updateItemColumnValueRuns(apiToken, params.boardId, params.itemId,
                                              params.columnId, params.value)]))

\* mondayGetItem is called and settles
MondayGetItem ==
    \E params \in [itemId : {"item1"}] :
        HandlerSettles("Error getting item", params,
            handlerRuns("Error getting item", settings,
                [apiToken \in ApiTokens |-> getItemRuns(apiToken, params.itemId)]))

\* mondayCreateItemsBatch is called and settles
MondayCreateItemsBatch ==
    \E params \in [boardId : {"board1"}, items : ItemsArgs] :
        HandlerSettles("Error creating items batch", params,
            handlerRuns("Error creating items batch", settings,
                [apiToken \in ApiTokens |->
                    createItemsBatchRuns(apiToken, params.boardId, params.items)]))

\* mondayCreateResearchItem is called and settles
MondayCreateResearchItem ==
    \E params \in [boardId : {"board1"}, itemName : {ItemName(1)}, groupId : {undefined},
                    researchType : {String(<<"E", "x", "p", "e", "r", "i", "m", "e", "n", "t">>),
                                    String(<<"a", "u", "d", "i", "t">>)},
                    researchData :
                        {Object(<<>>),
                         Object(<<[id |-> status, value |-> Done]>>),
                         Object(<<[id |-> String(<<"S", "T", "A", "T", "U", "S">>),
                                   value |-> Done],
                                  [id |-> notes, value |-> String(<<"O", "p", "e", "n">>)]>>),
                         Object(<<[id |-> status, value |-> String(<<>>)],
                                  [id |-> notes, value |-> Done]>>),
                         Object(<<[id |-> String(<<"s", "a", "m", "p", "l", "e", "_", "s", "i", "z", "e">>), value |-> FromInt(42)]>>),
                         Object(<<[id |-> String(<<"N", "o", "t", "e", "s">>), value |-> Done],
                                  [id |-> String(<<"o", "w", "n", "e", "r">>), value |-> Done]>>),
                         Object(<<[id |-> String(<<"s", "c", "o", "r", "e">>), value |-> FromInt(7)],
                                  [id |-> String(<<"C", "o", "u", "n", "t">>), value |-> FromInt(42)]>>)}] :
        HandlerSettles("Error creating research item", params,
            handlerRuns("Error creating research item", settings,
                [apiToken \in ApiTokens |-> createResearchItemRuns(apiToken, params)]))

\* one of the tag and file handlers is called and settles
MondayTagOrFileHandler ==
    \E handler \in DOMAIN TagAndFileHandlers :
        HandlerSettles(TagAndFileHandlers[handler], [handler |-> handler],
            handlerRuns(TagAndFileHandlers[handler], settings,
                [apiToken \in ApiTokens |-> tagOrFileClientRuns(apiToken, handler)]))

\* getApiToken is called on the settings store and settles
GetApiToken ==
    /\ ~client.constructed
    /\ outcome = NotRun
    /\ outcome' = Outcome("tool", "getApiToken", <<>>,
                          Run(<<>>, <<>>, getApiToken(settings)))
    /\ UNCHANGED <<estimatorVars, toolVars, settings, validated, toasts, client, requests>>

\* ready is called and resolves
Ready ==
    /\ ~client.constructed
    /\ outcome = NotRun
    /\ outcome' = Outcome("tool", "ready", <<>>,
                          Run(<<>>, <<>>, Resolved(ready(settings))))
    /\ UNCHANGED <<estimatorVars, toolVars, settings, validated, toasts, client, requests>>

NextMonday ==
    \/ ConstructMondayClient
    \/ ListBoards
    \/ GetBoard
    \/ GetItem
    \/ CreateItem
    \/ UpdateItemColumnValue
    \/ CreateItemsBatch
    \/ MondayListBoards
    \/ MondayGetBoard
    \/ MondayCreateItem
    \/ MondayUpdateItemColumn
    \/ MondayGetItem
    \/ MondayCreateItemsBatch
    \/ MondayCreateResearchItem
    \/ MondayTagOrFileHandler
    \/ GetApiToken
    \/ Ready
    \/ FormatColumnValue

SpecMonday == InitMonday /\ [][NextMonday]_vars

(***************************************************************************)
(* Properties.                                                             *)
(***************************************************************************)
\* the two estimator entry points the properties are about
CoreOuts == {libOut, toolOut}

\* a number proper: neither null nor NaN nor infinite
IsNumber(r) == IsFin(r)

ValidBaseline == baselineRate > 0 /\ baselineRate < 100

\* Math.max of two numbers (NaN if either is NaN)
MathMax(a, b) ==
    IF IsNaN(a) \/ IsNaN(b) THEN NaN ELSE IF FLt(a, b) THEN b ELSE a

\* n rounded (half up) to its three leading digits
RoundTo3Digits(n) ==
    IF Digits(n) <= 3 THEN n
    ELSE LET q == Pow10(Digits(n) - 3) IN ((n + (q \div 2)) \div q) * q

\* C1: every call of the estimator returns null or a finite number >= 0,
\* never NaN or an infinite value.
C1_ResultNullOrFiniteNonNegative ==
    \A out \in CoreOuts :
        out.called =>
            \/ out.result = null
            \/ (IsFin(out.result) /\ FGe(out.result, Zero))

\* C2: roundToSigFigs keeps three significant digits: a positive integer s is
\* returned rounded half up to its three leading digits (1..999 unchanged).
C2_KeepsThreeSignificantDigits ==
    (roundOut # null /\ roundIn >= 1) =>
        roundOut = FromInt(RoundTo3Digits(roundIn))

\* C3: for a baseline rate <= 0 or >= 1 the estimator returns null, whatever the
\* effect and the significance.
C3_BaselineOutsideUnitIntervalGivesNull ==
    \A out \in CoreOuts :
        (out.called /\ ~ValidBaseline) => out.result = null

\* C4: for a baseline rate strictly between 0 and 1, a relative effect of exactly
\* zero makes the estimator return null, at every significance level.
C4_ZeroEffectGivesNull ==
    \A out \in CoreOuts :
        (out.called /\ ValidBaseline /\ mde = 0) => out.result = null

\* C4 witness: both estimators ran on a valid baseline with effect 0 and found
\* an infinite estimate.
C4_Witness ==
    /\ libOut.called /\ toolOut.called
    /\ ValidBaseline /\ mde = 0 /\ significancePercent = 95
    /\ libOut.sampleEstimate = PosInf /\ toolOut.sampleEstimate = PosInf

\* C5: for a valid baseline and a non-zero effect, the value passed to the
\* rounding step is max(|estimate1|, |estimate2|).
C5_RoundedValueIsLargerCandidate ==
    \A out \in CoreOuts :
        (out.called /\ ValidBaseline /\ mde # 0 /\ out.rounded) =>
            out.sampleEstimate =
                MathMax(MathAbs(out.sampleEstimate1), MathAbs(out.sampleEstimate2))

\* C6: the rounding step is reached only with an estimate x with round(x) >= 1,
\* so that the logarithm in roundToSigFigs is never taken of 0 or a negative number.
C6_RoundingReachedOnlyAboveOne ==
    \A out \in CoreOuts :
        (out.called /\ out.rounded) => FGe(MathRound(out.sampleEstimate), One)

\* C7: rounding is idempotent: a value the estimator returns from the rounding
\* step is returned unchanged by the rounding step.
C7_RoundingIdempotent ==
    /\ (libOut.called /\ libOut.rounded) =>
           roundToSigFigs(libOut.result) = libOut.result
    /\ (toolOut.called /\ toolOut.rounded) =>
           toolRoundToSigFigs(toolOut.result) = toolOut.result

\* C7 witness: an estimate was rounded to a value that differs from its integer part.
C7_Witness ==
    /\ libOut.called /\ libOut.rounded /\ IsNumber(libOut.result)
    /\ toolOut.called /\ toolOut.rounded
    /\ libOut.result # MathRound(libOut.sampleEstimate)

\* the results of sampleSizeEstimate over the argument grid
EstimateTable ==
    [b \in BaselineRates, e \in Effects, s \in Significances |->
        sampleSizeEstimate(Conversion(b), Effect(e), SignificanceDecimal(s))]

\* C8: with baseline and significance fixed, the returned sample size does not
\* decrease as |relativeEffect| decreases: for non-zero effects e1, e2 with
\* |e1| < |e2| whose results are both numbers, result(e1) >= result(e2).
C8_MonotoneInEffect ==
    (libOut.called /\ IsNumber(libOut.result) /\ mde # 0) =>
        \A e2 \in Effects \ {0} :
            LET r2 == EstimateTable[baselineRate, e2, significancePercent]
            IN  /\ (IntAbs(mde) < IntAbs(e2) /\ IsNumber(r2)) => FGe(libOut.result, r2)
                /\ (IntAbs(e2) < IntAbs(mde) /\ IsNumber(r2)) => FGe(r2, libOut.result)

\* C8 witness: a numeric result that is strictly above the numeric result of a
\* larger effect.
C8_Witness ==
    /\ libOut.called /\ IsNumber(libOut.result) /\ mde # 0
    /\ \E e2 \in Effects :
          /\ IntAbs(mde) < IntAbs(e2)
          /\ IsNumber(EstimateTable[baselineRate, e2, significancePercent])
          /\ FLt(EstimateTable[baselineRate, e2, significancePercent], libOut.result)

\* C10: calculateSampleSizeInternal, the pre-existing sampleSizeEstimate and
\* sample_size_calc.ts sampleSizeEstimate (given significance / 100) return the
\* same value on the same arguments.
C10_ImplementationsAgree ==
    (libOut.called /\ toolOut.called /\ existingOut.called) =>
        /\ toolOut.result = existingOut.result
        /\ toolOut.result = libOut.result

\* C10 witness: the three ran on the same arguments and returned a number.
C10_Witness ==
    /\ libOut.called /\ toolOut.called /\ existingOut.called
    /\ IsNumber(toolOut.result) /\ FLt(One, toolOut.result)

\* the core estimate calculateSampleSize obtained is a value of type number
CoreReturnedNumber == response.sampleSize.k \in {"fin", "NaN", "Inf"}

\* C11: when the core estimator returns null, calculateSampleSize returns the
\* failure record with the message 'Invalid calculation parameters - unable to
\* compute sample size' and no data object; it returns success: true with a
\* data object only when the core returned a number.
C11_NullCoreGivesInvalidParameters ==
    response.called =>
        /\ response.sampleSize = null =>
              response.result = [success |-> FALSE,
                                 message |-> InvalidParametersMessage,
                                 data |-> undefined]
        /\ response.result.success =>
              CoreReturnedNumber /\ response.result.data # undefined

\* a request whose core estimate is null has been answered with the failure record
C11_Witness ==
    /\ response.called
    /\ response.sampleSize = null
    /\ ~response.result.success
    /\ request.baselineRate = Decimal(12, 1)

\* C12: with E the core per-variant estimate, sampleSizePerVariant is
\* E * variants when variants > 2 and E when variants <= 2, variantMultiplier
\* is reported as variants resp. 1, and totalSampleSize is
\* round(sampleSizePerVariant * variants).
C12_VariantMultiplierAboveTwo ==
    response.called /\ response.result.success =>
        LET E == response.sampleSize
            v == response.used.variants
            d == response.result.data
        IN  /\ FLt(Two, v) =>
                  d.sampleSizePerVariant = FMul(E, v) /\ d.variantMultiplier = v
            /\ FGe(Two, v) =>
                  d.sampleSizePerVariant = E /\ d.variantMultiplier = One
            /\ d.totalSampleSize = MathRound(FMul(d.sampleSizePerVariant, v))

\* a request for three variants has been answered with a positive estimate
C12_Witness ==
    /\ response.called
    /\ response.result.success
    /\ request.variants = FromInt(3)
    /\ IsFin(response.sampleSize) /\ FLt(Zero, response.sampleSize)
    /\ response.result.data.variantMultiplier = FromInt(3)

\* two strings that differ at most in the case of their letters
SameIgnoringCase(a, b) ==
    /\ Len(a.chars) = Len(b.chars)
    /\ \A i \in DOMAIN a.chars :
          \/ a.chars[i] = b.chars[i]
          \/ \E j \in DOMAIN UpperCaseLetters :
                {a.chars[i], b.chars[i]} = {UpperCaseLetters[j], LowerCaseLetters[j]}

\* C13: dailyVisitors is visitors/30 for frequency 'monthly', visitors/7 for
\* 'weekly' and visitors for 'daily', the frequency compared case-insensitively;
\* daysToRun is round(sampleSizePerVariant / (dailyVisitors / variants)), and
\* weeksToRun and monthsToRun are the unrounded day count divided by 7 and by
\* 30, each then rounded.
C13_DurationFromDailyTrafficPerVariant ==
    response.called /\ response.result.success =>
        LET d == response.result.data
            f == response.used.frequency
            visitors == response.used.visitors
            dailyVisitors ==
                IF SameIgnoringCase(f, monthly) THEN FDiv(visitors, FromInt(30))
                ELSE IF SameIgnoringCase(f, weekly) THEN FDiv(visitors, FromInt(7))
                ELSE visitors
            days == FDiv(d.sampleSizePerVariant,
                         FDiv(dailyVisitors, response.used.variants))
        IN  (\E known \in {monthly, weekly, daily} : SameIgnoringCase(f, known)) =>
                /\ d.daysToRun = MathRound(days)
                /\ d.weeksToRun = MathRound(FDiv(days, FromInt(7)))
                /\ d.monthsToRun = MathRound(FDiv(days, FromInt(30)))

\* a request with the frequency 'Weekly' has been answered with a finite duration
C13_Witness ==
    /\ response.called
    /\ response.result.success
    /\ request.frequency = String(<<"W", "e", "e", "k", "l", "y">>)
    /\ IsFin(response.result.data.daysToRun)
    /\ FLt(Zero, response.result.data.daysToRun)

\* the parameter value the request carries is used, or the default when absent
UsesSuppliedOrDefault(supplied, default, usedValue) ==
    IF supplied = undefined THEN usedValue = default ELSE usedValue = supplied

\* C14: calculateSampleSize uses the documented default for each parameter that
\* is absent from the request (baselineRate 0.1, mde 0.05, significance 95,
\* variants 2, visitors 10000, frequency 'monthly'), and for each parameter that
\* is present it uses the supplied value and echoes that value in the result.
C14_DefaultsOnlyWhenAbsent ==
    response.called =>
        /\ UsesSuppliedOrDefault(request.baselineRate, Decimal(1, 1),
                                 response.used.baselineRate)
        /\ UsesSuppliedOrDefault(request.mde, Decimal(5, 2), response.used.mde)
        /\ UsesSuppliedOrDefault(request.significance, FromInt(95),
                                 response.used.significance)
        /\ UsesSuppliedOrDefault(request.variants, FromInt(2), response.used.variants)
        /\ UsesSuppliedOrDefault(request.visitors, FromInt(10000),
                                 response.used.visitors)
        /\ UsesSuppliedOrDefault(request.frequency, monthly, response.used.frequency)
        /\ response.result.success =>
              LET d == response.result.data
              IN  /\ d.baselineRate = response.used.baselineRate
                  /\ d.expectedLift = response.used.mde
                  /\ d.significance = response.used.significance
                  /\ d.variants = response.used.variants
                  /\ d.visitorsCount = response.used.visitors
                  /\ SameIgnoringCase(d.visitorsFrequency, response.used.frequency)


\* C15: over every sequence of form submissions, no token reaches the settings
\* store without a test API call made with that token having returned a
\* successful response first.
C15_StoredTokenWasValidated ==
    settings.stored => settings.api_token \in validated


\* a token without a character that is not white space
IsBlank(token) ==
    IF token.k # "string" THEN TRUE
    ELSE \A i \in DOMAIN token.chars : token.chars[i] \in WhiteSpace

\* an answer that is not an HTTP-ok response without GraphQL errors
FailingAnswer(answer) ==
    answer.kind # "response" \/ ~answer.ok \/ Len(answer.errors) > 0

TokenNotConfigured ==
    <<"Monday.com API token not configured", ". Please configure it in the app settings.">>

\* C16: every Monday tool handler always resolves and never rejects: when token
\* retrieval, client construction or the client call fails it resolves to
\* {success: false, message: '<operation-specific prefix>: <error message>'},
\* and otherwise it resolves to a success record.
C16_HandlersAlwaysResolve ==
    outcome.settled # "not run" /\ outcome.layer = "handler" =>
        /\ outcome.settled = "resolved"
        /\ IF Len(outcome.caught) > 0
           THEN outcome.value = [success |-> FALSE,
                                 message |-> <<outcome.op, ": ">> \o outcome.caught]
           ELSE outcome.value.success
        /\ (~settings.stored \/ IsBlank(IF settings.stored THEN settings.api_token
                                        ELSE undefined)) =>
              /\ outcome.caught = TokenNotConfigured
              /\ requests = <<>>
        /\ (outcome.op # "Error creating items batch"
              /\ \E i \in DOMAIN outcome.responses : FailingAnswer(outcome.responses[i])) =>
              /\ ~outcome.value.success
              /\ Len(outcome.caught) > 0

\* mondayCreateItem has caught the failure of the create_item mutation
C16_Witness ==
    /\ outcome.settled = "resolved"
    /\ outcome.layer = "handler"
    /\ outcome.op = "Error creating item"
    /\ Len(requests) = 2
    /\ ~outcome.value.success
    /\ outcome.caught[1] = "Monday.com GraphQL errors"

\* the operations of the requests sent, in order
OperationsSent == [i \in DOMAIN requests |-> requests[i].operation]

PositionsOf(entries) ==
    [i \in DOMAIN entries |->
        IF entries[i].success THEN entries[i].data.name[2] ELSE entries[i].itemName[2]]

Increasing(positions) ==
    \A i, j \in DOMAIN positions : i < j => positions[i] < positions[j]

\* C18: createItemsBatch attempts createItem exactly once per input item, in
\* input order, and continues after a failure; it always resolves with
\* success: true and data.created / data.failed that partition the attempts
\* in order, every failed entry carrying the item's name and the error message.
C18_BatchAttemptsEachItemOnce ==
    outcome.settled # "not run" /\ outcome.layer = "client"
        /\ outcome.op = "createItemsBatch" =>
        LET items == outcome.args.items
            created == outcome.value.data.created
            failed == outcome.value.data.failed
        IN  /\ outcome.settled = "resolved"
            /\ outcome.value.success
            /\ outcome.attempts = [i \in DOMAIN items |-> items[i].name]
            /\ Len(created) + Len(failed) = Len(items)
            /\ \A i \in DOMAIN created : created[i].success
            /\ \A i \in DOMAIN failed :
                  /\ ~failed[i].success
                  /\ \E j \in DOMAIN items : failed[i].itemName = items[j].name
                  /\ Len(failed[i].error) > 0
            /\ Increasing(PositionsOf(created))
            /\ Increasing(PositionsOf(failed))
            /\ {PositionsOf(created)[i] : i \in DOMAIN created}
                  \cup {PositionsOf(failed)[i] : i \in DOMAIN failed} = DOMAIN items

\* a batch of two items whose first item failed and whose second was created
C18_Witness ==
    /\ outcome.settled = "resolved"
    /\ outcome.layer = "client"
    /\ outcome.op = "createItemsBatch"
    /\ Len(outcome.args.items) = 2
    /\ Len(outcome.value.data.failed) = 1
    /\ outcome.value.data.failed[1].itemName = ItemName(1)
    /\ Len(outcome.value.data.created) = 1

\* the client methods that let a failure of executeGraphQL through
MethodsThatReject ==
    {"listBoards", "getBoard", "getItem", "createItem", "updateItemColumnValue"}

\* C19: executeGraphQL returns response data only for a response that is
\* HTTP-ok and carries no GraphQL errors: a non-ok HTTP status makes the
\* calling operation reject, an ok response with a non-empty errors array
\* makes it reject with a message starting 'Monday.com GraphQL errors', and in
\* both cases no success record is produced.
C19_DataOnlyForOkWithoutErrors ==
    outcome.settled # "not run" /\ outcome.layer = "client"
        /\ outcome.op \in MethodsThatReject =>
        /\ (\E i \in DOMAIN outcome.responses :
               outcome.responses[i].kind = "response" /\ ~outcome.responses[i].ok) =>
              outcome.settled = "rejected" /\ outcome.value = undefined
        /\ (\E i \in DOMAIN outcome.responses :
               /\ outcome.responses[i].kind = "response"
               /\ outcome.responses[i].ok
               /\ Len(outcome.responses[i].errors) > 0) =>
              /\ outcome.settled = "rejected"
              /\ outcome.value = undefined
              /\ outcome.error[1] = "Monday.com GraphQL errors"
        /\ outcome.settled = "resolved" =>
              \A i \in DOMAIN outcome.responses : ~FailingAnswer(outcome.responses[i])

\* listBoards has rejected on an ok response that carries GraphQL errors
C19_Witness ==
    /\ outcome.settled = "rejected"
    /\ outcome.layer = "client"
    /\ outcome.op = "listBoards"
    /\ outcome.responses = <<HttpResponse("response", TRUE, <<"e1", "e2">>, "found")>>
    /\ outcome.error = <<"Monday.com GraphQL errors", ": ", "e1", ", ", "e2">>

\* C20: a MondayClient cannot be constructed with an empty or whitespace-only
\* API token: the constructor throws 'Monday.com API token is required', so
\* every request a client sends carries a non-blank token in the
\* Authorization header.
C20_ClientTokenNotBlank ==
    /\ client.constructed => ~IsBlank(client.apiToken)
    /\ (outcome.settled # "not run" /\ outcome.layer = "constructor") =>
          /\ IsBlank(outcome.args.apiToken)
          /\ outcome.settled = "rejected"
          /\ outcome.error = <<"Monday.com API token is required">>
    /\ \A i \in DOMAIN requests :
          /\ ~IsBlank(requests[i].authorization)
          /\ client.constructed => requests[i].authorization = client.apiToken

\* the constructor has thrown for a token of one space
C20_Witness ==
    /\ outcome.settled = "rejected"
    /\ outcome.layer = "constructor"
    /\ outcome.args.apiToken = String(<<" ">>)
    /\ ~client.constructed

\* a usable token is stored under monday_auth and the store can be read
TokenStored ==
    /\ "fails" \notin DOMAIN settings
    /\ settings.stored
    /\ ~IsBlank(settings.api_token)

\* C21: getApiToken returns the stored token when section monday_auth holds a
\* non-blank api_token, and otherwise (missing, empty, whitespace-only or
\* storage failure) rejects with a message starting 'Monday.com API token not
\* configured'; ready() returns true exactly when getApiToken succeeds.
C21_TokenOrNotConfigured ==
    outcome.settled # "not run" /\ outcome.layer = "tool" =>
        /\ outcome.op = "getApiToken" =>
              IF TokenStored
              THEN outcome.settled = "resolved" /\ outcome.value = settings.api_token
              ELSE /\ outcome.settled = "rejected"
                   /\ outcome.error[1] = "Monday.com API token not configured"
        /\ outcome.op = "ready" =>
              /\ outcome.settled = "resolved"
              /\ outcome.value = TokenStored

\* getApiToken has rejected for a stored token of one space
C21_Witness ==
    /\ outcome.settled = "rejected"
    /\ outcome.layer = "tool"
    /\ outcome.op = "getApiToken"
    /\ settings = Stored([api_token |-> String(<<" ">>)])
    /\ requests = <<>>

\* C22: getBoard and getItem reject with 'Board with ID <id> not found' resp.
\* 'Item with ID <id> not found' whenever the API answers successfully with an
\* empty or missing boards resp. items list, and resolve with
\* {success: true, data: <first element>} whenever the list is non-empty.
C22_NotFoundOrFirstElement ==
    outcome.settled # "not run" /\ outcome.layer = "client"
        /\ outcome.op \in {"getBoard", "getItem"}
        /\ ~FailingAnswer(outcome.responses[1]) =>
        IF outcome.responses[1].data \in {"empty", "missing"}
        THEN /\ outcome.settled = "rejected"
             /\ outcome.error =
                    IF outcome.op = "getBoard"
                    THEN <<"Board with ID ", outcome.args.boardId, " not found">>
                    ELSE <<"Item with ID ", outcome.args.itemId, " not found">>
        ELSE /\ outcome.settled = "resolved"
             /\ outcome.value =
                    [success |-> TRUE,
                     data |-> IF outcome.op = "getBoard" THEN TheBoard
                              ELSE [id |-> outcome.args.itemId]]

\* getBoard has rejected on an ok answer whose list of boards is empty
C22_Witness ==
    /\ outcome.settled = "rejected"
    /\ outcome.layer = "client"
    /\ outcome.op = "getBoard"
    /\ outcome.responses = <<HttpResponse("response", TRUE, <<>>, "empty")>>
    /\ outcome.error = <<"Board with ID ", "board1", " not found">>

\* the type the board reports for a column id, or undefined
ReportedType(columnId) ==
    IF \E i \in DOMAIN TheBoard.columns : TheBoard.columns[i].id = columnId
    THEN TheBoard.columns[CHOOSE i \in DOMAIN TheBoard.columns :
                              TheBoard.columns[i].id = columnId].type
    ELSE undefined

BoardColumnIds == {TheBoard.columns[i].id : i \in DOMAIN TheBoard.columns}

\* the board fetch of the handler has returned the board
BoardFetched ==
    /\ Len(outcome.responses) >= 1
    /\ outcome.responses[1] = HttpResponse("response", TRUE, <<>>, "found")

\* C24: mondayCreateResearchItem fetches the board before it creates the item
\* and never calls createItem when the board fetch fails; every key of the
\* column-value map passed to createItem, reported as transformedColumns, is
\* the id of a column of the fetched board.
C24_BoardBeforeItem ==
    outcome.settled # "not run" /\ outcome.layer = "handler"
        /\ outcome.op = "Error creating research item" =>
        /\ \A i \in DOMAIN requests :
              requests[i].operation = "create_item" =>
                  /\ i > 1
                  /\ requests[1].operation = "board"
                  /\ BoardFetched
                  /\ \A j \in DOMAIN requests[i].variables.columnValues.json :
                        requests[i].variables.columnValues.json[j].id \in BoardColumnIds
        /\ ~BoardFetched => Len(requests) <= 1
        /\ outcome.value.success =>
              /\ requests[Len(requests)].operation = "create_item"
              /\ \A j \in DOMAIN outcome.value.data.transformedColumns :
                    outcome.value.data.transformedColumns[j] \in BoardColumnIds
              /\ outcome.value.data.transformedColumns =
                    [j \in DOMAIN requests[Len(requests)].variables.columnValues.json |->
                        requests[Len(requests)].variables.columnValues.json[j].id]

\* a research item has been created with its status stored in the column
\* titled 'Status'
C24_Witness ==
    /\ outcome.settled = "resolved"
    /\ outcome.layer = "handler"
    /\ outcome.op = "Error creating research item"
    /\ outcome.value.success
    /\ Len(requests) = 3
    /\ outcome.value.data.transformedColumns = <<notes>>

\* mondayCreateResearchItem has created the item
ResearchItemCreated ==
    /\ outcome.settled = "resolved"
    /\ outcome.layer = "handler"
    /\ outcome.op = "Error creating research item"
    /\ outcome.value.success

\* the keys of the research data of the call
ResearchKeys ==
    {outcome.args.researchData.entries[i].id :
        i \in DOMAIN outcome.args.researchData.entries}

\* the column ids of the result of transformResearchDataToColumnValues
TransformedColumnIds ==
    {outcome.value.data.transformedColumns[j] :
        j \in DOMAIN outcome.value.data.transformedColumns}

CommonNameColumns ==
    {TheBoard.columns[i].id : i \in
        {i \in DOMAIN TheBoard.columns :
            \E n \in DOMAIN TypedFields(outcome.args.researchType) :
                LET f == TypedFields(outcome.args.researchType)[n]
                IN  /\ ~Falsy(Get(outcome.args.researchData, f.field))
                    /\ f.column \in {toLowerCase(TheBoard.columns[i].title),
                                      TheBoard.columns[i].id}}}

C26_ResultIndependentOfSign ==
    /\ libOut.called =>
          libOut.result = sampleSizeEstimate(Conversion(baselineRate), Effect(-mde),
                                             SignificanceDecimal(significancePercent))
    /\ toolOut.called =>
          toolOut.result = calculateSampleSizeInternal(
                               ProcessedModels(baselineRate, -mde, significancePercent))

\* a finite number that is not negative
FiniteNonNegative(a) == IsFin(a) /\ FGe(a, Zero)

\* C27: whenever calculateSampleSize returns success: true, every numeric
\* field of data (sampleSizePerVariant, totalSampleSize, daysToRun, weeksToRun,
\* monthsToRun, visitorsCountDays) is a finite non-negative number, for every
\* request including any frequency string and any variants or visitors value.
C27_SuccessDataFiniteNonNegative ==
    response.called /\ response.result.success =>
        /\ FiniteNonNegative(response.result.data.sampleSizePerVariant)
        /\ FiniteNonNegative(response.result.data.totalSampleSize)
        /\ FiniteNonNegative(response.result.data.daysToRun)
        /\ FiniteNonNegative(response.result.data.weeksToRun)
        /\ FiniteNonNegative(response.result.data.monthsToRun)
        /\ FiniteNonNegative(response.result.data.visitorsCountDays)

\* onSettingsForm has handled a form of section monday_auth with the action
\* validate_token
TokenValidationHandled ==
    /\ outcome.settled # "not run"
    /\ outcome.layer = "lifecycle"
    /\ outcome.args.section = "monday_auth"
    /\ outcome.args.action = "validate_token"

\* C28: for section 'monday_auth' and action 'validate_token', onSettingsForm
\* leaves the settings store unchanged unless the test API call returns an ok
\* response: a blank or whitespace-only token yields a warning toast with no
\* API call and no write, and a non-ok response or a thrown network error
\* yields a warning toast with no write; the handler never throws.
C28_ValidateTokenWritesOnlyAfterOk ==
    TokenValidationHandled =>
        /\ outcome.settled = "resolved"
        /\ settings # outcome.args.store =>
              /\ outcome.responses = <<"ok">>
              /\ settings = Stored(outcome.args.formData)
        /\ IsBlank(outcome.args.formData.api_token) =>
              /\ requests = <<>>
              /\ outcome.responses = <<>>
              /\ settings = outcome.args.store
              /\ Len(toasts) = 1 /\ toasts[1].intent = "warning"
        /\ ~IsBlank(outcome.args.formData.api_token) =>
              /\ Len(requests) = 1
              /\ requests[1].authorization = outcome.args.formData.api_token
              /\ outcome.responses # <<"ok">> =>
                    /\ settings = outcome.args.store
                    /\ Len(toasts) = 1 /\ toasts[1].intent = "warning"

\* the token 'b' was answered with a non-ok response: the store still holds
\* the token 'a' and the toast is a warning
C28_Witness ==
    /\ TokenValidationHandled
    /\ outcome.args.formData.api_token = String(<<"b">>)
    /\ outcome.responses = <<"not ok">>
    /\ settings = Stored([api_token |-> String(<<"a">>)])
    /\ toasts = <<[intent |-> "warning",
                   message |-> "Invalid API token. Please check your token and try again."]>>

\* C29: validateParameter returns, for every input value including NaN, a
\* number inside the range it accepts for the named parameter: strictly
\* greater than 0 for 'conversion' and 'effect', and between 80 and 99
\* inclusive for 'significance'.
C29_ValidatedValueInRange ==
    validateOut.called =>
        /\ validateOut.parameter \in {"conversion", "effect"} =>
              /\ validateOut.result.k \in {"fin", "Inf"}
              /\ FLt(Zero, validateOut.result)
        /\ validateOut.parameter = "significance" =>
              /\ validateOut.result.k = "fin"
              /\ FGe(validateOut.result, FromInt(80))
              /\ FGe(FromInt(99), validateOut.result)

\* C30: formatColumnValue is idempotent per column type: for every value v and
\* column type t (including no type), formatColumnValue(formatColumnValue(v,
\* t), t) equals formatColumnValue(v, t).
C30_FormatColumnValueIdempotent ==
    outcome.settled # "not run" /\ outcome.layer = "client"
        /\ outcome.op = "formatColumnValue" =>
        formatColumnValue(outcome.value, outcome.args.columnType) = outcome.value

====
